---- MODULE Spec2Model ----
(***************************************************************************)
(* A model of the hybrid transpiler: the regex-based structural parser     *)
(* (simple_cpp_parser.cpp), the async/coroutine analyzer                   *)
(* (async_analyzer.cpp) and the pipeline orchestrator (transpiler.cpp).    *)
(* Source text is kept as TLA+ strings; the std::regex (ECMAScript)        *)
(* patterns of the source are transcribed item by item and run by a        *)
(* backtracking matcher with the library's priorities (greedy, lazy,       *)
(* leftmost alternative first).                                            *)
(***************************************************************************)
EXTENDS Integers, Sequences, FiniteSets, TLC

\* ------------------------------------------------------------------------
\* Characters
\* ------------------------------------------------------------------------
Lower == {"a","b","c","d","e","f","g","h","i","j","k","l","m",
          "n","o","p","q","r","s","t","u","v","w","x","y","z"}
Upper == {"A","B","C","D","E","F","G","H","I","J","K","L","M",
          "N","O","P","Q","R","S","T","U","V","W","X","Y","Z"}
Digit == {"0","1","2","3","4","5","6","7","8","9"}
\* \w of the patterns
WordCh == Lower \cup Upper \cup Digit \cup {"_"}
\* [a-zA-Z_] of the patterns
IdStart == Lower \cup Upper \cup {"_"}
\* \s of the patterns, and std::isspace
SpaceCh == {" ", "\t", "\n", "\r", "\f"}
\* the characters "." does not match (ECMAScript line terminators)
LineTerm == {"\n", "\r"}

CharAt(s, i) == SubSeq(s, i, i)

\* ------------------------------------------------------------------------
\* std::regex, ECMAScript grammar: a pattern is a sequence of items
\*   lit  : a literal string
\*   cls  : a character class with a quantifier (min 0/1, many, lazy)
\*   grp  : a group of alternatives with a quantifier, capturing when cap > 0
\*   eos  : the end of the subject (regex_match)
\*   end  : (internal) the end of one iteration of a group
\* ------------------------------------------------------------------------
Lit(str) == [t |-> "lit", s |-> str]
Cls(cs, neg, min, many, lazy) ==
    [t |-> "cls", cs |-> cs, neg |-> neg, min |-> min, many |-> many, lazy |-> lazy]
One(cs) == Cls(cs, FALSE, 1, FALSE, FALSE)
Star(cs) == Cls(cs, FALSE, 0, TRUE, FALSE)
Plus(cs) == Cls(cs, FALSE, 1, TRUE, FALSE)
LazyStar(cs) == Cls(cs, FALSE, 0, TRUE, TRUE)
NotStar(cs) == Cls(cs, TRUE, 0, TRUE, FALSE)
NotPlus(cs) == Cls(cs, TRUE, 1, TRUE, FALSE)
Grp(cap, alts, min, many) ==
    [t |-> "grp", cap |-> cap, alts |-> alts, min |-> min, many |-> many]
Cap(cap, items) == Grp(cap, <<items>>, 1, FALSE)
Opt(cap, items) == Grp(cap, <<items>>, 0, FALSE)
Rep(items) == Grp(0, <<items>>, 0, TRUE)
Eos == [t |-> "eos"]

NoCaps(n) == [i \in 1..n |-> <<0, 0>>]
ReFail == [ok |-> FALSE, start |-> 0, end |-> 0, caps |-> <<>>]

InCls(s, it, pos) == pos <= Len(s) /\ ((CharAt(s, pos) \in it.cs) # it.neg)

SetMax(S) == CHOOSE k \in S : \A j \in S : j <= k
SetMin(S) == CHOOSE k \in S : \A j \in S : k <= j

\* the length of the longest run of class characters from pos (at most one
\* unless many)
ClsRun(s, it, pos) ==
    IF it.many THEN SetMin({k \in 0..(Len(s) + 1 - pos) : ~InCls(s, it, pos + k)})
    ELSE IF InCls(s, it, pos) THEN 1
    ELSE 0

RECURSIVE CanStart(_, _, _)
\* a necessary condition for the items to match at pos: the first character
\* fits the first item that has to take one
CanStart(s, items, pos) ==
    IF Len(items) = 0 THEN TRUE
    ELSE LET it == Head(items)
             rest == Tail(items)
         IN CASE it.t = "lit" ->
                   pos + Len(it.s) - 1 <= Len(s) /\ SubSeq(s, pos, pos + Len(it.s) - 1) = it.s
              [] it.t = "cls" -> InCls(s, it, pos) \/ (it.min = 0 /\ CanStart(s, rest, pos))
              [] it.t = "grp" ->
                   \/ \E i \in 1..Len(it.alts) : CanStart(s, it.alts[i] \o rest, pos)
                   \/ it.min = 0 /\ CanStart(s, rest, pos)
              [] it.t = "eos" -> pos = Len(s) + 1
              [] it.t = "end" ->
                   \/ CanStart(s, rest, pos)
                   \/ it.g.many /\ \E i \in 1..Len(it.g.alts) : CanStart(s, it.g.alts[i], pos)

RECURSIVE ReMatch(_, _, _, _)
RECURSIVE ReTryCls(_, _, _, _, _, _)
RECURSIVE ReTryGrp(_, _, _, _, _, _)

\* the items matched from pos on, first match in backtracking priority order
ReMatch(s, items, pos, caps) ==
    IF Len(items) = 0 THEN [ok |-> TRUE, start |-> 0, end |-> pos, caps |-> caps]
    ELSE LET it == Head(items)
             rest == Tail(items)
         IN CASE it.t = "lit" ->
                   IF pos + Len(it.s) - 1 <= Len(s)
                      /\ SubSeq(s, pos, pos + Len(it.s) - 1) = it.s
                   THEN ReMatch(s, rest, pos + Len(it.s), caps)
                   ELSE ReFail
              [] it.t = "cls" ->
                   ReTryCls(s, rest, pos, caps,
                            {k \in it.min..ClsRun(s, it, pos) : CanStart(s, rest, pos + k)},
                            it.lazy)
              [] it.t = "grp" -> ReTryGrp(s, it, rest, pos, caps, 1)
              [] it.t = "eos" ->
                   IF pos = Len(s) + 1 THEN ReMatch(s, rest, pos, caps) ELSE ReFail
              [] it.t = "end" ->
                   IF it.g.many /\ pos = it.from THEN ReFail
                   ELSE ReMatch(s,
                                (IF it.g.many THEN <<[it.g EXCEPT !.min = 0]>> ELSE <<>>) \o rest,
                                pos,
                                IF it.g.cap > 0
                                THEN [caps EXCEPT ![it.g.cap] = <<it.from, pos>>]
                                ELSE caps)

\* a quantified class taking k characters, for the k in ks after which the rest
\* can start: the largest k first (greedy) or the smallest first (lazy)
ReTryCls(s, rest, pos, caps, ks, lazy) ==
    IF ks = {} THEN ReFail
    ELSE LET k == IF lazy THEN SetMin(ks) ELSE SetMax(ks)
             r == ReMatch(s, rest, pos + k, caps)
         IN IF r.ok THEN r ELSE ReTryCls(s, rest, pos, caps, ks \ {k}, lazy)

\* a group: its alternatives left to right, then (when optional) nothing
ReTryGrp(s, it, rest, pos, caps, i) ==
    IF i > Len(it.alts)
    THEN IF it.min = 0 THEN ReMatch(s, rest, pos, caps) ELSE ReFail
    ELSE LET r == ReMatch(s, it.alts[i] \o <<[t |-> "end", g |-> it, from |-> pos]>> \o rest,
                          pos, caps)
         IN IF r.ok THEN r ELSE ReTryGrp(s, it, rest, pos, caps, i + 1)

\* the match that starts at the least position of starts, if there is one
ReMatchFirst(s, re, ncaps, starts) ==
    IF starts = {} THEN ReFail
    ELSE [ReMatch(s, re, SetMin(starts), NoCaps(ncaps)) EXCEPT !.start = SetMin(starts)]

\* std::regex_search from position from: the leftmost match
ReSearch(s, re, ncaps, from) ==
    ReMatchFirst(s, re, ncaps,
                 {i \in from..(Len(s) + 1) :
                     CanStart(s, re, i) /\ ReMatch(s, re, i, NoCaps(ncaps)).ok})

RECURSIVE ReFindAll(_, _, _, _)
\* std::sregex_iterator, and the search_start = match.suffix().first loops
ReFindAll(s, re, ncaps, from) ==
    LET r == ReSearch(s, re, ncaps, from)
    IN IF ~r.ok THEN <<>>
       ELSE <<r>> \o ReFindAll(s, re, ncaps, IF r.end = r.start THEN r.end + 1 ELSE r.end)

\* match[i].matched and match[i].str()
Matched(r, i) == r.caps[i][1] > 0
Str(s, r, i) == IF Matched(r, i) THEN SubSeq(s, r.caps[i][1], r.caps[i][2] - 1) ELSE ""
MatchStr(s, r) == SubSeq(s, r.start, r.end - 1)


\* ------------------------------------------------------------------------
\* String helpers (std::string members used by the parser)
\* ------------------------------------------------------------------------
RECURSIVE Flatten(_)
\* the concatenation of a sequence of sequences
Flatten(ss) == IF Len(ss) = 0 THEN <<>> ELSE Head(ss) \o Flatten(Tail(ss))

\* the sequence of F(e) for the elements e of q, in order
MapSeq(F(_), q) == [i \in 1..Len(q) |-> F(q[i])]

RECURSIVE FindFrom(_, _, _)
\* std::string::find: the 1-based position of sub at or after i, 0 for npos
FindFrom(s, sub, i) ==
    IF i + Len(sub) - 1 > Len(s) THEN 0
    ELSE IF SubSeq(s, i, i + Len(sub) - 1) = sub THEN i
    ELSE FindFrom(s, sub, i + 1)
Find(s, sub) == FindFrom(s, sub, 1)

RECURSIVE RFindFrom(_, _, _)
\* std::string::rfind of one character: its last position, 0 for npos
RFindFrom(s, c, i) ==
    IF i = 0 THEN 0 ELSE IF CharAt(s, i) = c THEN i ELSE RFindFrom(s, c, i - 1)
RFind(s, c) == RFindFrom(s, c, Len(s))

\* s.find(prefix) == 0
StartsWith(s, prefix) == Find(s, prefix) = 1

RECURSIVE SkipSpace(_, _)
SkipSpace(s, i) ==
    IF i <= Len(s) /\ CharAt(s, i) \in SpaceCh THEN SkipSpace(s, i + 1) ELSE i
RECURSIVE SkipSpaceBack(_, _, _)
SkipSpaceBack(s, start, e) ==
    IF e >= start /\ CharAt(s, e) \in SpaceCh THEN SkipSpaceBack(s, start, e - 1) ELSE e
\* SimpleCppParser::trim
trim(str) ==
    LET start == SkipSpace(str, 1)
    IN SubSeq(str, start, SkipSpaceBack(str, start, Len(str)))

RECURSIVE JoinNamesWith(_, _)
\* the texts of q with sep between them
JoinNamesWith(q, sep) ==
    IF Len(q) = 0 THEN ""
    ELSE IF Len(q) = 1 THEN Head(q)
    ELSE Head(q) \o sep \o JoinNamesWith(Tail(q), sep)

\* ------------------------------------------------------------------------
\* IR records (ir.h)
\* ------------------------------------------------------------------------
\* Type: element_type is a sequence of zero or one Type
MkType(kind, name, is_const, elem) ==
    [kind |-> kind, name |-> name, is_const |-> is_const, element_type |-> elem]

\* CoroutineInfo with its default member initializers
DefaultCoroutineInfo ==
    [is_coroutine |-> FALSE, async_operations |-> <<>>,
     uses_co_await |-> FALSE, uses_co_return |-> FALSE,
     uses_co_yield |-> FALSE, is_generator |-> FALSE]

\* Function with its default member initializers
DefaultFunction ==
    [name |-> "", return_type |-> <<>>, parameters |-> <<>>, body |-> "",
     is_const |-> FALSE, is_static |-> FALSE, is_virtual |-> FALSE,
     is_pure_virtual |-> FALSE, is_constructor |-> FALSE, is_destructor |-> FALSE,
     may_throw |-> FALSE, is_template |-> FALSE, uses_threading |-> FALSE,
     coroutine_info |-> DefaultCoroutineInfo, futures |-> <<>>,
     async_tasks |-> <<>>, is_async |-> FALSE]

\* ClassDecl with its default member initializers
DefaultClassDecl ==
    [name |-> "", is_struct |-> FALSE, fields |-> <<>>, methods |-> <<>>,
     base_classes |-> <<>>, access_sections |-> <<>>]

\* IR(): no classes
EmptyIR == [classes |-> <<>>]

\* ------------------------------------------------------------------------
\* SimpleCppParser (simple_cpp_parser.cpp)
\* ------------------------------------------------------------------------
\* std::regex("//[^\n]*")
line_comment_pattern == <<Lit("//"), NotStar({"\n"})>>
\* std::regex("/\\*.*?\\*/")
block_comment_pattern == <<Lit("/*"), Cls(LineTerm, TRUE, 0, TRUE, TRUE), Lit("*/")>>

RECURSIVE ReplaceAll(_, _, _)
\* std::regex_replace(s, re, ""): the text between the matches ms, from position from
ReplaceAll(s, ms, from) ==
    IF Len(ms) = 0 THEN SubSeq(s, from, Len(s))
    ELSE SubSeq(s, from, Head(ms).start - 1) \o ReplaceAll(s, Tail(ms), Head(ms).end)

\* std::regex_replace(code, pattern, "")
StripComments(code, pattern) == ReplaceAll(code, ReFindAll(code, pattern, 0, 1), 1)

removeComments(code) ==
    StripComments(StripComments(code, line_comment_pattern), block_comment_pattern)

\* the builtin_map of mapBuiltinType
builtin_map ==
    [n \in {"void", "bool", "char", "short", "int", "long", "float", "double", "size_t"} |->
        CASE n = "void" -> "Void"
          [] n = "bool" -> "Bool"
          [] n \in {"float", "double"} -> "Float"
          [] OTHER -> "Integer"]

RECURSIVE parseType(_)
RECURSIVE TypeOfTrimmed(_, _)

\* a Type with the element type e.ty, where e is [ty, ub] of the element
WrapType(kind, name, is_const, e) ==
    [ty |-> MkType(kind, name, is_const, <<e.ty>>), ub |-> e.ub]

\* trimmed.substr(start, end - start) between the first '<' and the last '>'
ElementType(trimmed, lt, gt) ==
    IF gt = 0 THEN SubSeq(trimmed, lt + 1, Len(trimmed)) ELSE SubSeq(trimmed, lt + 1, gt - 1)

\* the std::unique_ptr< and std::shared_ptr< branches
SmartPointerType(prefix, element_type) ==
    WrapType("Pointer", prefix \o element_type \o ">", FALSE, parseType(element_type))

\* parseType after the const check
TypeOfTrimmed(trimmed, is_const) ==
    IF trimmed = ""
    THEN [ty |-> MkType("Class", trimmed, is_const, <<>>), ub |-> TRUE]
    ELSE IF CharAt(trimmed, Len(trimmed)) = "*"
    THEN WrapType("Pointer", trimmed, is_const, parseType(SubSeq(trimmed, 1, Len(trimmed) - 1)))
    ELSE IF CharAt(trimmed, Len(trimmed)) = "&"
    THEN WrapType("Reference", trimmed, is_const,
                  parseType(SubSeq(trimmed, 1, Len(trimmed) - 1)))
    ELSE IF StartsWith(trimmed, "std::unique_ptr<")
    THEN SmartPointerType("std::unique_ptr<",
                          ElementType(trimmed, Find(trimmed, "<"), RFind(trimmed, ">")))
    ELSE IF StartsWith(trimmed, "std::shared_ptr<")
    THEN SmartPointerType("std::shared_ptr<",
                          ElementType(trimmed, Find(trimmed, "<"), RFind(trimmed, ">")))
    ELSE IF Find(trimmed, "[") # 0
    THEN WrapType("Array", trimmed, FALSE,
                  parseType(SubSeq(trimmed, 1, Find(trimmed, "[") - 1)))
    ELSE IF trimmed \in DOMAIN builtin_map
    THEN [ty |-> MkType(builtin_map[trimmed], trimmed, is_const, <<>>), ub |-> FALSE]
    ELSE [ty |-> MkType("Class", trimmed, is_const, <<>>), ub |-> FALSE]

\* trimmed after the const check
StripConst(trimmed) ==
    IF StartsWith(trimmed, "const") THEN trim(SubSeq(trimmed, 6, Len(trimmed))) ELSE trimmed

\* The Type of a type string, and whether the call read back() of an empty
\* string (undefined behaviour); ty is then what the call returns when the
\* byte read is neither '*' nor '&'.
parseType(type_str) ==
    TypeOfTrimmed(StripConst(trim(type_str)), StartsWith(trim(type_str), "const"))

\* [\w:<>,\[\]\s*&] and [\w:<>,\s*&]
FieldTypeCh == WordCh \cup SpaceCh \cup {":", "<", ">", ",", "[", "]", "*", "&"}
MethodTypeCh == WordCh \cup SpaceCh \cup {":", "<", ">", ",", "*", "&"}

\* [^}]*(?:\{[^}]*\}[^}]*)* : a body with at most one level of nested braces
BracedBody == <<NotStar({"}"}), Rep(<<Lit("{"), NotStar({"}"}), Lit("}"), NotStar({"}"})>>)>>

class_pattern ==
    <<Lit("class"), Plus(SpaceCh), Cap(1, <<Plus(WordCh)>>), Star(SpaceCh),
      Opt(0, <<Lit(":"), Star(SpaceCh), Lit("public"), Plus(SpaceCh),
               Cap(2, <<Plus(WordCh),
                        Rep(<<Star(SpaceCh), Lit(","), Star(SpaceCh), Plus(WordCh)>>)>>)>>),
      Star(SpaceCh), Lit("{"), Cap(3, BracedBody), Lit("};")>>

\* R"(\w+)"
base_pattern == <<Plus(WordCh)>>

\* R"((private|protected|public)\s*:)"
access_pattern ==
    <<Grp(1, <<<<Lit("private")>>, <<Lit("protected")>>, <<Lit("public")>>>>, 1, FALSE),
      Star(SpaceCh), Lit(":")>>

field_pattern ==
    <<Opt(0, <<Lit("const"), Plus(SpaceCh)>>), Opt(0, <<Lit("static"), Plus(SpaceCh)>>),
      Cap(1, <<One(IdStart), LazyStar(FieldTypeCh)>>), Plus(SpaceCh),
      Cap(2, <<One(IdStart), Star(WordCh),
               Rep(<<Star(SpaceCh), Lit(","), Star(SpaceCh), One(IdStart), Star(WordCh)>>)>>),
      Star(SpaceCh), Lit(";")>>

\* R"([a-zA-Z_]\w*)"
name_pattern == <<One(IdStart), Star(WordCh)>>

method_pattern ==
    <<Opt(1, <<Lit("virtual"), Plus(SpaceCh)>>), Opt(2, <<Lit("static"), Plus(SpaceCh)>>),
      Opt(0, <<Cap(3, <<One(IdStart), LazyStar(MethodTypeCh)>>), Plus(SpaceCh)>>),
      Cap(4, <<One(IdStart), Star(WordCh)>>), Star(SpaceCh),
      Lit("("), Cap(5, <<NotStar({")"})>>), Lit(")"), Star(SpaceCh),
      Opt(6, <<Lit("const")>>), Star(SpaceCh),
      Opt(7, <<Lit("="), Star(SpaceCh), Lit("0")>>), Star(SpaceCh),
      Grp(0, <<<<Lit("{"), Cap(8, BracedBody), Lit("}")>>, <<Lit(";")>>>>, 1, FALSE)>>

param_pattern ==
    <<Cap(1, <<One(IdStart), LazyStar(MethodTypeCh)>>), Plus(SpaceCh),
      Cap(2, <<One(IdStart), Star(WordCh)>>),
      Opt(0, <<Star(SpaceCh), Lit("="), Star(SpaceCh), Cap(3, <<NotPlus(LineTerm)>>)>>),
      Eos>>

\* parseBaseClasses that stops after the first name
parseBaseClassesFirst(bases_str) ==
    SubSeq(MapSeq(LAMBDA m : MatchStr(bases_str, m), ReFindAll(bases_str, base_pattern, 0, 1)),
           1, 1)

\* class_decl.base_classes after parseBaseClasses
parseBaseClasses(bases_str) ==
    MapSeq(LAMBDA m : MatchStr(bases_str, m), ReFindAll(bases_str, base_pattern, 0, 1))

RECURSIVE SplitParams(_, _, _, _)
\* the param_strs of parseParameters: split at commas outside <>
SplitParams(s, i, angle_depth, start) ==
    IF i > Len(s) THEN <<SubSeq(s, start, Len(s))>>
    ELSE IF CharAt(s, i) = "<" THEN SplitParams(s, i + 1, angle_depth + 1, start)
    ELSE IF CharAt(s, i) = ">" THEN SplitParams(s, i + 1, angle_depth - 1, start)
    ELSE IF CharAt(s, i) = "," /\ angle_depth = 0
    THEN <<SubSeq(s, start, i - 1)>> \o SplitParams(s, i + 1, angle_depth, i + 1)
    ELSE SplitParams(s, i + 1, angle_depth, start)

\* the Parameter of a trimmed parameter string and its regex_match m, as [p, ub]
ParameterOf(trimmed, m, ty) ==
    [p |-> [name |-> IF m.ok THEN Str(trimmed, m, 2) ELSE "",
            type |-> ty.ty,
            has_default |-> m.ok /\ Matched(m, 3),
            default_value |-> IF m.ok THEN Str(trimmed, m, 3) ELSE ""],
     ub |-> ty.ub]

\* the type text of a parameter: match[1], or all of it when the pattern fails
ParameterTypeStr(trimmed, m) == IF m.ok THEN Str(trimmed, m, 1) ELSE trimmed

ParameterOfMatch(trimmed, m) == ParameterOf(trimmed, m, parseType(ParameterTypeStr(trimmed, m)))

\* one trimmed parameter string: zero or one [p: Parameter, ub]
parseParameter(trimmed) ==
    IF trimmed = "" THEN <<>>
    ELSE <<ParameterOfMatch(trimmed, ReMatch(trimmed, param_pattern, 1, NoCaps(3)))>>

\* func.parameters after parseParameters, with the undefined-behaviour flags
parseParameters(params_str) ==
    Flatten(MapSeq(LAMBDA s : parseParameter(trim(s)), SplitParams(params_str, 1, 0, 1)))

\* the fields one declaration adds: one per name, all of type ty
FieldsOfNames(names_str, ty) ==
    MapSeq(LAMBDA n : [f |-> [name |-> MatchStr(names_str, n), type |-> ty.ty], ub |-> ty.ub],
           ReFindAll(names_str, name_pattern, 0, 1))

\* the fields one field_pattern match adds
FieldsOfMatch(section, m) ==
    IF Find(MatchStr(section, m), "(") # 0 THEN <<>>
    ELSE FieldsOfNames(Str(section, m, 2), parseType(Str(section, m, 1)))

\* the fields one section adds: a sequence of [f: Variable, ub]
parseFields(section) ==
    Flatten(MapSeq(LAMBDA m : FieldsOfMatch(section, m),
                   ReFindAll(section, field_pattern, 2, 1)))

\* MethodOf that takes is_pure_virtual from the const group of the match
MethodOfPureFromConst(section, m, is_ctor, ty, ps) ==
    [m |-> [DefaultFunction EXCEPT
               !.name = Str(section, m, 4),
               !.is_virtual = Matched(m, 1),
               !.is_static = Matched(m, 2),
               !.is_pure_virtual = Matched(m, 6),
               !.is_constructor = is_ctor,
               !.return_type = IF is_ctor THEN <<>> ELSE <<ty.ty>>,
               !.parameters = MapSeq(LAMBDA e : e.p, ps),
               !.is_const = Matched(m, 6),
               !.body = Str(section, m, 8)],
     ub |-> (~is_ctor /\ ty.ub) \/ \E k \in 1..Len(ps) : ps[k].ub]

\* the Function of one method_pattern match, as [m, ub]; ty and ps are the
\* parsed return type and parameters
MethodOf(section, m, is_ctor, ty, ps) ==
    [m |-> [DefaultFunction EXCEPT
               !.name = Str(section, m, 4),
               !.is_virtual = Matched(m, 1),
               !.is_static = Matched(m, 2),
               !.is_pure_virtual = Matched(m, 7),
               !.is_constructor = is_ctor,
               !.return_type = IF is_ctor THEN <<>> ELSE <<ty.ty>>,
               !.parameters = MapSeq(LAMBDA e : e.p, ps),
               !.is_const = Matched(m, 6),
               !.body = Str(section, m, 8)],
     ub |-> (~is_ctor /\ ty.ub) \/ \E k \in 1..Len(ps) : ps[k].ub]

MethodOfMatch(section, class_name, m) ==
    MethodOf(section, m,
             Str(section, m, 3) = "" \/ Str(section, m, 3) = class_name,
             parseType(Str(section, m, 3)),
             IF Str(section, m, 5) # "" THEN parseParameters(Str(section, m, 5)) ELSE <<>>)

\* the methods one section adds: a sequence of [m: Function, ub]
parseMethods(section, class_name) ==
    MapSeq(LAMBDA m : MethodOfMatch(section, class_name, m),
           ReFindAll(section, method_pattern, 8, 1))

RECURSIVE SplitSectionsKeepLabel(_, _, _, _)
\* parseClassBody that starts a section at its access label, not after it
SplitSectionsKeepLabel(body, ms, last, current_access) ==
    IF Len(ms) = 0
    THEN IF last <= Len(body)
         THEN <<[text |-> SubSeq(body, last, Len(body)), access |-> current_access]>>
         ELSE <<>>
    ELSE (IF SubSeq(body, last, Head(ms).start - 1) # ""
          THEN <<[text |-> SubSeq(body, last, Head(ms).start - 1), access |-> current_access]>>
          ELSE <<>>)
         \o SplitSectionsKeepLabel(body, Tail(ms), Head(ms).start, Str(body, Head(ms), 1))

RECURSIVE SplitSections(_, _, _, _)
\* the sections and access_levels of parseClassBody, as [text, access] records;
\* last is the position after the previous access label
SplitSections(body, ms, last, current_access) ==
    IF Len(ms) = 0
    THEN IF last <= Len(body)
         THEN <<[text |-> SubSeq(body, last, Len(body)), access |-> current_access]>>
         ELSE <<>>
    ELSE LET section_content == SubSeq(body, last, Head(ms).start - 1)
         IN (IF section_content # ""
             THEN <<[text |-> section_content, access |-> current_access]>>
             ELSE <<>>)
            \o SplitSections(body, Tail(ms), Head(ms).end, Str(body, Head(ms), 1))

\* the sections of parseClassBody: the whole body when no label splits it
SectionsOf(body, found) ==
    IF Len(found) = 0 THEN <<[text |-> body, access |-> "private"]>> ELSE found

\* parseSection on each section: fs and mts are the [f, ub] and [m, ub] found
ClassOfMembers(class_decl, fs, mts) ==
    [decl |-> [class_decl EXCEPT
                  !.fields = @ \o MapSeq(LAMBDA e : e.f, fs),
                  !.methods = @ \o MapSeq(LAMBDA e : e.m, mts)],
     ub |-> (\E i \in 1..Len(fs) : fs[i].ub) \/ (\E i \in 1..Len(mts) : mts[i].ub)]

ClassOfSections(class_decl, sections) ==
    ClassOfMembers(class_decl,
                   Flatten(MapSeq(LAMBDA sec : parseFields(sec.text), sections)),
                   Flatten(MapSeq(LAMBDA sec : parseMethods(sec.text, class_decl.name),
                                  sections)))

\* the class after parseClassBody, and whether undefined behaviour was executed
parseClassBody(body, class_decl) ==
    ClassOfSections(class_decl,
                    SectionsOf(body,
                               SplitSections(body, ReFindAll(body, access_pattern, 1, 1),
                                             1, "private")))

\* IR::addClass
addClass(ir, class_decl) == [ir EXCEPT !.classes = Append(@, class_decl)]

\* one class_pattern match of parseClasses
parseClass(cleaned, m) ==
    parseClassBody(Str(cleaned, m, 3),
                   [DefaultClassDecl EXCEPT
                       !.name = Str(cleaned, m, 1),
                       !.is_struct = FALSE,
                       !.base_classes = IF Matched(m, 2)
                                        THEN parseBaseClasses(Str(cleaned, m, 2))
                                        ELSE <<>>])

RECURSIVE AddClasses(_, _)
AddClasses(ir, decls) ==
    IF Len(decls) = 0 THEN ir ELSE AddClasses(addClass(ir, Head(decls)), Tail(decls))

\* the IR of the parsed classes cs, each [decl, ub]
IROfClasses(cs) ==
    [ir |-> AddClasses(EmptyIR, MapSeq(LAMBDA c : c.decl, cs)),
     ub |-> \E i \in 1..Len(cs) : cs[i].ub]

\* the classes of comment-free text
ClassesIn(cleaned) ==
    MapSeq(LAMBDA m : parseClass(cleaned, m), ReFindAll(cleaned, class_pattern, 3, 1))

\* parseClasses on a fresh IR: [ir, ub]
parseClasses(source) == IROfClasses(ClassesIn(removeComments(source)))

\* SimpleCppParser::parseString (and Parser::parseString)
parseString(source) == parseClasses(source)

\* ------------------------------------------------------------------------
\* AsyncAnalyzer (async_analyzer.cpp)
\* ------------------------------------------------------------------------
\* the characters AsyncAnalyzer::trim strips: " \t\n\r"
AsyncWs == {" ", "\t", "\n", "\r"}

RECURSIVE FirstNotOf(_, _, _)
\* find_first_not_of: the first position at or after i outside cs, 0 for npos
FirstNotOf(s, cs, i) ==
    IF i > Len(s) THEN 0 ELSE IF CharAt(s, i) \notin cs THEN i ELSE FirstNotOf(s, cs, i + 1)
RECURSIVE LastNotOf(_, _, _)
LastNotOf(s, cs, i) ==
    IF i = 0 THEN 0 ELSE IF CharAt(s, i) \notin cs THEN i ELSE LastNotOf(s, cs, i - 1)

\* AsyncAnalyzer::trim
async_trim(str) ==
    LET first == FirstNotOf(str, AsyncWs, 1)
    IN IF first = 0 THEN "" ELSE SubSeq(str, first, LastNotOf(str, AsyncWs, Len(str)))

\* R"(co_await\s+([^;]+))", R"(co_return\s+([^;]+))", R"(co_yield\s+([^;]+))"
await_pattern == <<Lit("co_await"), Plus(SpaceCh), Cap(1, <<NotPlus({";"})>>)>>
return_pattern == <<Lit("co_return"), Plus(SpaceCh), Cap(1, <<NotPlus({";"})>>)>>
yield_pattern == <<Lit("co_yield"), Plus(SpaceCh), Cap(1, <<NotPlus({";"})>>)>>

\* the AsyncOperations one keyword loop pushes
KeywordOps(body, pattern, op_type) ==
    MapSeq(LAMBDA m : [op_type |-> op_type, expression |-> async_trim(Str(body, m, 1))],
           ReFindAll(body, pattern, 1, 1))

\* CoroutineInfoWith whose yield loop does not set is_generator
CoroutineInfoNoGenerator(c, awaits, returns, yields) ==
    [c EXCEPT
        !.async_operations = @ \o awaits \o returns \o yields,
        !.uses_co_await = @ \/ Len(awaits) > 0,
        !.uses_co_return = @ \/ Len(returns) > 0,
        !.uses_co_yield = @ \/ Len(yields) > 0,
        !.is_coroutine = \/ @
                         \/ c.uses_co_await \/ Len(awaits) > 0
                         \/ c.uses_co_return \/ Len(returns) > 0
                         \/ c.uses_co_yield \/ Len(yields) > 0]

\* coroutine_info after the three keyword loops pushed awaits, returns, yields
CoroutineInfoWith(c, awaits, returns, yields) ==
    [c EXCEPT
        !.async_operations = @ \o awaits \o returns \o yields,
        !.uses_co_await = @ \/ Len(awaits) > 0,
        !.uses_co_return = @ \/ Len(returns) > 0,
        !.uses_co_yield = @ \/ Len(yields) > 0,
        !.is_generator = @ \/ Len(yields) > 0,
        !.is_coroutine = \/ @
                         \/ c.uses_co_await \/ Len(awaits) > 0
                         \/ c.uses_co_return \/ Len(returns) > 0
                         \/ c.uses_co_yield \/ Len(yields) > 0]

\* func after detectCoroutineKeywords
detectCoroutineKeywords(func) ==
    [func EXCEPT !.coroutine_info =
        CoroutineInfoWith(@, KeywordOps(func.body, await_pattern, "CoAwait"),
                          KeywordOps(func.body, return_pattern, "CoReturn"),
                          KeywordOps(func.body, yield_pattern, "CoYield"))]

\* R"(std::future<([^>]+)>\s+(\w+)\s*(?:=|;))"
future_pattern ==
    <<Lit("std::future<"), Cap(1, <<NotPlus({">"})>>), Lit(">"), Plus(SpaceCh),
      Cap(2, <<Plus(WordCh)>>), Star(SpaceCh),
      Grp(0, <<<<Lit("=")>>, <<Lit(";")>>>>, 1, FALSE)>>
\* R"(std::promise<([^>]+)>\s+(\w+))"
promise_pattern ==
    <<Lit("std::promise<"), Cap(1, <<NotPlus({">"})>>), Lit(">"), Plus(SpaceCh),
      Cap(2, <<Plus(WordCh)>>)>>

\* the pairing loop without its break: every future without a promise gets
\* promise_var
PairPromiseEvery(futures, promise_var, i) ==
    [k \in 1..Len(futures) |->
        IF futures[k].promise_var_name = ""
        THEN [futures[k] EXCEPT !.promise_var_name = promise_var]
        ELSE futures[k]]

RECURSIVE PairPromise(_, _, _)
\* the futures after one promise declaration: the first future without a
\* promise gets promise_var
PairPromise(futures, promise_var, i) ==
    IF i > Len(futures) THEN futures
    ELSE IF futures[i].promise_var_name = ""
    THEN [futures EXCEPT ![i].promise_var_name = promise_var]
    ELSE PairPromise(futures, promise_var, i + 1)

RECURSIVE PairPromises(_, _)
PairPromises(futures, promise_vars) ==
    IF Len(promise_vars) = 0 THEN futures
    ELSE PairPromises(PairPromise(futures, Head(promise_vars), 1), Tail(promise_vars))

\* the FutureInfo of one future_pattern match
FutureOfMatch(body, m) ==
    [future_var_name |-> Str(body, m, 2),
     value_type |-> MkType("Void", Str(body, m, 1), FALSE, <<>>),
     promise_var_name |-> "",
     is_shared_future |-> FALSE]

\* func after detectFuturePromise
detectFuturePromise(func) ==
    [func EXCEPT !.futures =
        PairPromises(@ \o MapSeq(LAMBDA m : FutureOfMatch(func.body, m),
                                 ReFindAll(func.body, future_pattern, 2, 1)),
                     MapSeq(LAMBDA m : Str(func.body, m, 2),
                            ReFindAll(func.body, promise_pattern, 2, 1)))]

\* [^,)]+ and (?:,\s*([^)]*))?\) : the callee and the optional argument text
AsyncCallTail(callee_cap, args_cap) ==
    <<Cap(callee_cap, <<NotPlus({",", ")"})>>),
      Opt(0, <<Lit(","), Star(SpaceCh), Cap(args_cap, <<NotStar({")"})>>)>>),
      Lit(")")>>

async_pattern1 ==
    <<Grp(0, <<<<Lit("auto")>>, <<Lit("std::future<"), NotPlus({">"}), Lit(">")>>>>, 1, FALSE),
      Plus(SpaceCh), Cap(1, <<Plus(WordCh)>>), Star(SpaceCh), Lit("="), Star(SpaceCh),
      Lit("std::async"), Star(SpaceCh), Lit("("), Star(SpaceCh)>> \o AsyncCallTail(2, 3)

async_pattern2 ==
    <<Lit("std::async"), Star(SpaceCh), Lit("("), Star(SpaceCh), Lit("std::launch::"),
      Plus(WordCh), Star(SpaceCh), Lit(","), Star(SpaceCh)>> \o AsyncCallTail(1, 2)

RECURSIVE SplitArguments(_, _, _, _, _)
\* parseArguments: split at commas outside brackets and angle brackets
SplitArguments(s, i, paren_depth, angle_depth, current_arg) ==
    IF i > Len(s)
    THEN IF current_arg # "" THEN <<async_trim(current_arg)>> ELSE <<>>
    ELSE LET c == CharAt(s, i)
             pd == IF c \in {"(", "[", "{"} THEN paren_depth + 1
                   ELSE IF c \in {")", "]", "}"} THEN paren_depth - 1
                   ELSE paren_depth
             ad == IF c = "<" THEN angle_depth + 1
                   ELSE IF c = ">" THEN angle_depth - 1
                   ELSE angle_depth
         IN IF c = "," /\ pd = 0 /\ ad = 0
            THEN <<async_trim(current_arg)>> \o SplitArguments(s, i + 1, pd, ad, "")
            ELSE SplitArguments(s, i + 1, pd, ad, current_arg \o c)

parseArguments(args_str) == SplitArguments(args_str, 1, 0, 0, "")

\* the AsyncTaskInfo of one match: the captures name, callee and args (name 0
\* for the pattern without a variable)
TaskOfMatch(body, m, name, callee, args) ==
    [task_var_name |-> IF name = 0 THEN "" ELSE Str(body, m, name),
     async_function_name |-> async_trim(Str(body, m, callee)),
     arguments |-> IF Matched(m, args) THEN parseArguments(Str(body, m, args)) ELSE <<>>,
     detached |-> name = 0]

\* func after detectAsyncCalls
detectAsyncCalls(func) ==
    [func EXCEPT !.async_tasks =
        @ \o MapSeq(LAMBDA m : TaskOfMatch(func.body, m, 1, 2, 3),
                    ReFindAll(func.body, async_pattern1, 3, 1))
          \o MapSeq(LAMBDA m : TaskOfMatch(func.body, m, 0, 1, 2),
                    ReFindAll(func.body, async_pattern2, 2, 1))]

\* the derived flag without the launched tasks
DeriveIsAsyncNoTasks(func) ==
    func.coroutine_info.is_coroutine \/ Len(func.futures) > 0

\* the derived flag: lines 33-35 of analyzeFunction
DeriveIsAsync(func) ==
    func.coroutine_info.is_coroutine \/ Len(func.futures) > 0 \/ Len(func.async_tasks) > 0

\* the assignment of the derived flag, written to the threading flag as well
SetIsAsyncAndThreading(func) ==
    [func EXCEPT !.is_async = DeriveIsAsync(func), !.uses_threading = DeriveIsAsync(func)]

\* the assignment of the derived flag
SetIsAsync(func) == [func EXCEPT !.is_async = DeriveIsAsync(func)]

\* the Function after AsyncAnalyzer::analyzeFunction
analyzeFunction(func) ==
    SetIsAsync(detectAsyncCalls(detectFuturePromise(detectCoroutineKeywords(func))))

\* ------------------------------------------------------------------------
\* TemplateAnalyzer and TemplateConversionStrategy (template_analyzer.cpp)
\* ------------------------------------------------------------------------
TemplateWs == {" ", "\t", "\n", "\r"}

\* TemplateAnalyzer::trim
template_trim(str) ==
    IF FirstNotOf(str, TemplateWs, 1) = 0 THEN ""
    ELSE SubSeq(str, FirstNotOf(str, TemplateWs, 1), LastNotOf(str, TemplateWs, Len(str)))

RECURSIVE split(_, _)
\* TemplateAnalyzer::split: the std::getline items of str; no item after a
\* delimiter that ends the text
split(str, delim) ==
    IF str = "" THEN <<>>
    ELSE IF Find(str, delim) = 0 THEN <<str>>
    ELSE <<SubSeq(str, 1, Find(str, delim) - 1)>>
         \o split(SubSeq(str, Find(str, delim) + 1, Len(str)), delim)

RECURSIVE SplitTemplateFrom(_, _, _, _)
\* the loop of splitTemplateParams at character i: current is the text from
\* start; the last group is pushed only when it is not empty
SplitTemplateFrom(params, i, depth, start) ==
    IF i > Len(params)
    THEN IF start <= Len(params) THEN <<SubSeq(params, start, Len(params))>> ELSE <<>>
    ELSE IF CharAt(params, i) = "<" THEN SplitTemplateFrom(params, i + 1, depth + 1, start)
    ELSE IF CharAt(params, i) = ">" THEN SplitTemplateFrom(params, i + 1, depth - 1, start)
    ELSE IF CharAt(params, i) = "," /\ depth = 0
    THEN <<SubSeq(params, start, i - 1)>> \o SplitTemplateFrom(params, i + 1, depth, i + 1)
    ELSE SplitTemplateFrom(params, i + 1, depth, start)

splitTemplateParams(params) == SplitTemplateFrom(params, 1, 0, 1)

\* TemplateParameter: param_type is a sequence of zero or one Type (the
\* shared_ptr), constraints is never filled by the analyzer
MkTemplateParameter(kind, name, default_value, param_type) ==
    [kind |-> kind, name |-> name, default_value |-> default_value,
     param_type |-> param_type, constraints |-> <<>>]

\* name and default_value of text: split at eq_pos when there is a '='
NameAndDefault(kind, text, eq_pos, param_type) ==
    IF eq_pos # 0
    THEN MkTemplateParameter(kind, template_trim(SubSeq(text, 1, eq_pos - 1)),
                             template_trim(SubSeq(text, eq_pos + 1, Len(text))), param_type)
    ELSE MkTemplateParameter(kind, text, "", param_type)

\* the typename/class branch: rest is the text after the first space
TypeParamOf(trimmed, name_start) ==
    IF name_start = 0 THEN MkTemplateParameter("TypeParam", "", "", <<>>)
    ELSE NameAndDefault("TypeParam",
                        template_trim(SubSeq(trimmed, name_start + 1, Len(trimmed))),
                        Find(template_trim(SubSeq(trimmed, name_start + 1, Len(trimmed))), "="),
                        <<>>)

RECURSIVE RFindStrFrom(_, _, _)
\* std::string::rfind of a text: its last position, 0 for npos
RFindStrFrom(s, sub, i) ==
    IF i < 1 THEN 0
    ELSE IF SubSeq(s, i, i + Len(sub) - 1) = sub THEN i
    ELSE RFindStrFrom(s, sub, i - 1)
RFindStr(s, sub) == RFindStrFrom(s, sub, Len(s) - Len(sub) + 1)

\* the template template branch: the name is the text after the last "class"
TemplateParamOf(trimmed, class_pos) ==
    MkTemplateParameter("TemplateParam",
                        IF class_pos = 0 THEN ""
                        ELSE template_trim(SubSeq(trimmed, class_pos + 5, Len(trimmed))),
                        "", <<>>)

\* the non-type branch: the last token is the name, with a default when the
\* token holds a '='; the tokens before it, joined by one space, are the type
NonTypeOf(tokens) ==
    IF Len(tokens) = 0 THEN MkTemplateParameter("NonType", "", "", <<>>)
    ELSE NameAndDefault("NonType", tokens[Len(tokens)], Find(tokens[Len(tokens)], "="),
                        <<MkType("Integer", JoinNamesWith(SubSeq(tokens, 1, Len(tokens) - 1), " "),
                                 FALSE, <<>>)>>)

\* parseTemplateParameter on the trimmed text
TemplateParameterOf(trimmed) ==
    IF StartsWith(trimmed, "typename") \/ StartsWith(trimmed, "class")
    THEN TypeParamOf(trimmed, Find(trimmed, " "))
    ELSE IF StartsWith(trimmed, "template")
    THEN TemplateParamOf(trimmed, RFindStr(trimmed, "class"))
    ELSE NonTypeOf(split(trimmed, " "))

parseTemplateParameter(param_str) == TemplateParameterOf(template_trim(param_str))

\* the parameters parseTemplateParameters appends to params; start and end
\* are the positions of the first '<' and the last '>', 0 for npos; when end
\* is before start the length of substr wraps and the rest of decl is taken
TemplateParametersBetween(decl, start, end) ==
    IF start = 0 \/ end = 0 THEN <<>>
    ELSE MapSeq(parseTemplateParameter,
                splitTemplateParams(IF end > start THEN SubSeq(decl, start + 1, end - 1)
                                    ELSE SubSeq(decl, start + 1, Len(decl))))

parseTemplateParameters(decl, params) ==
    params \o TemplateParametersBetween(decl, Find(decl, "<"), RFind(decl, ">"))

\* TemplateConversionStrategy::convertTypeToRust with every type lowered to usize
convertTypeToRustUsize(cpp_type) == "usize"

\* TemplateConversionStrategy::convertTypeToRust
convertTypeToRust(cpp_type) ==
    IF cpp_type = "int" \/ cpp_type = "int32_t" THEN "i32"
    ELSE IF cpp_type = "size_t" THEN "usize"
    ELSE IF cpp_type = "unsigned int" \/ cpp_type = "uint32_t" THEN "u32"
    ELSE "usize"

\* what the loop of toRustGenericBounds writes for one parameter
RustGenericOf(param) ==
    IF param.kind = "TypeParam"
    THEN param.name \o (IF Len(param.constraints) > 0
                        THEN ": " \o JoinNamesWith(param.constraints, " + ") ELSE "")
    ELSE IF param.kind = "NonType"
    THEN "const " \o param.name \o ": "
         \o (IF Len(param.param_type) > 0 THEN convertTypeToRust(param.param_type[1].name)
             ELSE "usize")
    ELSE ""

\* ", " is written before every parameter but the first, whatever its kind
toRustGenericBounds(params) ==
    IF Len(params) = 0 THEN ""
    ELSE "<" \o JoinNamesWith(MapSeq(RustGenericOf, params), ", ") \o ">"

\* what the loop of toGoTypeParameters writes for one parameter
GoTypeParameterOf(param) ==
    IF param.kind = "TypeParam"
    THEN param.name \o (IF Len(param.constraints) > 0
                        THEN " " \o JoinNamesWith(param.constraints, " | ") ELSE " any")
    ELSE ""

toGoTypeParameters(params) ==
    IF Len(params) = 0 THEN ""
    ELSE "[" \o JoinNamesWith(MapSeq(GoTypeParameterOf, params), ", ") \o "]"

\* ------------------------------------------------------------------------
\* main (main.cpp): the output path derived from the input path
\* ------------------------------------------------------------------------
\* the extension of the target: .rs for Rust, .go otherwise
ExtensionOf(target) == IF target = "Rust" THEN ".rs" ELSE ".go"

\* the derived output path: the input path up to dot_pos, the position of
\* its last '.', or all of it when it has none, then the extension
DerivedOutputPath(input_file, dot_pos, extension) ==
    IF dot_pos # 0 THEN SubSeq(input_file, 1, dot_pos - 1) \o extension
    ELSE input_file \o extension

\* options.output_path after the auto-generate block of main
AutoOutputPath(input_file, options) ==
    IF options.output_path = ""
    THEN DerivedOutputPath(input_file, RFind(input_file, "."), ExtensionOf(options.target))
    ELSE options.output_path

\* ------------------------------------------------------------------------
\* FFIAnalyzer (ffi.h, ffi_analyzer.cpp)
\* ------------------------------------------------------------------------
\* an unordered_map of the <<key, value>> pairs
TableOf(pairs) == [k \in {p[1] : p \in pairs} |-> (CHOOSE p \in pairs : p[1] = k)[2]]

\* the three tables initializeTypeMappings assigns: <<C++ type, C, Rust, Go>>
TypeMappings ==
    {<<"void", "void", "()", "">>, <<"bool", "_Bool", "bool", "C.bool">>,
     <<"char", "char", "i8", "C.char">>,
     <<"unsigned char", "unsigned char", "u8", "C.uchar">>,
     <<"short", "short", "i16", "C.short">>,
     <<"unsigned short", "unsigned short", "u16", "C.ushort">>,
     <<"int", "int", "i32", "C.int">>,
     <<"unsigned int", "unsigned int", "u32", "C.uint">>,
     <<"long", "long", "i64", "C.long">>,
     <<"unsigned long", "unsigned long", "u64", "C.ulong">>,
     <<"long long", "long long", "i64", "C.longlong">>,
     <<"unsigned long long", "unsigned long long", "u64", "C.ulonglong">>,
     <<"float", "float", "f32", "C.float">>, <<"double", "double", "f64", "C.double">>,
     <<"int8_t", "int8_t", "i8", "int8">>, <<"int16_t", "int16_t", "i16", "int16">>,
     <<"int32_t", "int32_t", "i32", "int32">>, <<"int64_t", "int64_t", "i64", "int64">>,
     <<"uint8_t", "uint8_t", "u8", "uint8">>, <<"uint16_t", "uint16_t", "u16", "uint16">>,
     <<"uint32_t", "uint32_t", "u32", "uint32">>, <<"uint64_t", "uint64_t", "u64", "uint64">>,
     <<"size_t", "size_t", "usize", "C.size_t">>,
     <<"const char*", "const char*", "*const i8", "*C.char">>,
     <<"char*", "char*", "*mut i8", "*C.char">>}

\* the analyzer after FFIAnalyzer::initializeTypeMappings
initializeTypeMappings(analyzer) ==
    [analyzer EXCEPT
        !.cpp_to_c_types_ = TableOf({<<m[1], m[2]>> : m \in TypeMappings}),
        !.cpp_to_rust_types_ = TableOf({<<m[1], m[3]>> : m \in TypeMappings}),
        !.cpp_to_go_types_ = TableOf({<<m[1], m[4]>> : m \in TypeMappings})]

\* FFIAnalyzer() = default: the three maps are empty
FFIAnalyzer ==
    [cpp_to_c_types_ |-> TableOf({}), cpp_to_rust_types_ |-> TableOf({}),
     cpp_to_go_types_ |-> TableOf({})]

RECURSIVE RemoveChar(_, _)
\* erase(remove(begin, end, c), end)
RemoveChar(str, c) ==
    IF str = "" THEN ""
    ELSE (IF CharAt(str, 1) = c THEN "" ELSE CharAt(str, 1))
         \o RemoveChar(SubSeq(str, 2, Len(str)), c)

\* FFIAnalyzer::isFFICompatible
isFFICompatible(analyzer, cpp_type) ==
    RemoveChar(cpp_type, " ") \in DOMAIN analyzer.cpp_to_c_types_

RECURSIVE toCType(_, _)
\* FFIAnalyzer::toCType, for a cpp_type that is not empty
toCType(analyzer, cpp_type) ==
    IF cpp_type \in DOMAIN analyzer.cpp_to_c_types_ THEN analyzer.cpp_to_c_types_[cpp_type]
    ELSE IF CharAt(cpp_type, Len(cpp_type)) = "*"
    THEN toCType(analyzer, SubSeq(cpp_type, 1, Len(cpp_type) - 1)) \o "*"
    ELSE "void*"

\* FFIAnalyzer::toRustFFIType
toRustFFIType(analyzer, cpp_type) ==
    IF cpp_type \in DOMAIN analyzer.cpp_to_rust_types_
    THEN analyzer.cpp_to_rust_types_[cpp_type]
    ELSE IF Find(cpp_type, "*") # 0 /\ Find(cpp_type, "const") # 0
    THEN "*const std::ffi::c_void"
    ELSE "*mut std::ffi::c_void"

\* FFIAnalyzer::toGoFFIType
toGoFFIType(analyzer, cpp_type) ==
    IF cpp_type \in DOMAIN analyzer.cpp_to_go_types_ THEN analyzer.cpp_to_go_types_[cpp_type]
    ELSE "unsafe.Pointer"

\* ------------------------------------------------------------------------
\* State
\* ------------------------------------------------------------------------
VARIABLES
    func,            \* AsyncAnalyzer: the Function being analyzed
    runs,            \* AsyncAnalyzer: analyzeFunction calls made on func
    source,          \* Parser: the source text handed to parseString
    bases,           \* Parser: the base names the text of source was written with
    members,         \* Parser: the member texts the text of source was written with
    parsed,          \* Parser: the outcome of parseString, status "none" before the call
    options_,        \* Transpiler: [target, output_path]
    codegen_,        \* Transpiler: the code generator, "null" when there is none
    ir_,             \* Transpiler: the IR object, created by the constructor
    last_error_,     \* Transpiler: the stored error message
    files,           \* the file system: path -> [exists, content]
    pc,              \* where the running call is: idle, batch, parse, generate, write
    input_path,      \* the argument of the running transpile
    queue,           \* transpileBatch: the input paths not yet visited
    in_batch,        \* whether the running transpile was called by transpileBatch
    generated_code,  \* generateCode: the text generate returned
    result,          \* what the last call gave its caller: true, false, exception
    batch,           \* history: the argument of the running transpileBatch
    units,           \* history: the transpile runs of the call, each
                     \* [path, stages, out_before, outcome]
    template_decl,   \* TemplateAnalyzer: the declaration text handed to the analysis
    class_decl,      \* TemplateAnalyzer: is_template and template_parameters of the ClassDecl
    rust_bounds,     \* zero or one text: what toRustGenericBounds returned
    go_params,       \* zero or one text: what toGoTypeParameters returned
    input_file,      \* main: the input path of the command line
    cli_options,     \* main: its TranspilerOptions options, [target, output_path]
    main_pc,         \* main: "validated" before the output path is settled, then "ready"
    ffi_analyzer,    \* FFIAnalyzer: its three type mapping tables
    ffi_call         \* FFIAnalyzer: the last query, [op, cpp_type, result]

asyncVars == <<func, runs>>
parserVars == <<source, bases, members, parsed>>
pipelineVars == <<options_, codegen_, ir_, last_error_, files, pc, input_path, queue,
                  in_batch, generated_code, result, batch, units>>
templateVars == <<template_decl, class_decl, rust_bounds, go_params>>
mainVars == <<input_file, cli_options, main_pc>>
ffiVars == <<ffi_analyzer, ffi_call>>
vars == <<func, runs, source, bases, members, parsed, options_, codegen_, ir_,
          last_error_, files, pc, input_path, queue, in_batch, generated_code, result,
          batch, units,
          template_decl, class_decl, rust_bounds, go_params, input_file, cli_options, main_pc,
          ffi_analyzer, ffi_call>>

\* ------------------------------------------------------------------------
\* Inputs
\* ------------------------------------------------------------------------
\* statements a function body is made of
MaxStmts == 2
\* analyzeFunction calls on one Function
MaxRuns == 2
\* member declarations of a class body
MaxMembers == 3
\* names of a base clause
MaxBases == 2
\* input paths of one transpileBatch call
MaxBatch == 2
\* method declarations of a class body made of methods only
MaxMethods == 1
\* parameters of a template parameter list
MaxTParams == 2
\* member texts of a class body written with comments and method bodies
MaxTexts == 2
\* class and struct blocks of a source text
MaxBlocks == 3
MaxDecls == 3

Stmts ==
    {"co_await next();", "co_return;", "co_return 1;", "co_yield i;",
     "std::future<int> f = p.get_future();", "std::promise<int> p;",
     "auto r = std::async(work, 1);", "std::async(std::launch::async, work);",
     "auto r = std::async(std::launch::async, work, 1);", "int x = 0;"}

RECURSIVE JoinWords(_)
\* the texts of q, each after one space
JoinWords(q) == IF Len(q) = 0 THEN "" ELSE " " \o Head(q) \o JoinWords(Tail(q))

SeqsUpTo(S, n) == UNION {[1..k -> S] : k \in 0..n}

Bodies == {JoinWords(q) : q \in SeqsUpTo(Stmts, MaxStmts)}

\* the texts a class body is made of: an access label, a field, a method, and
\* two declarations whose type text is empty once const or '*' is removed
MemberTexts == {"public:", "int x;", "void bar(){}", "const x;", "void f(*);"}
BaseNames == {"B1", "B2"}

\* comments that hide a declaration: a line comment, a block comment on one
\* line, a block comment over two lines
CommentTexts == {"// int a;\n", "/* int b; */", "/* int c;\n int d; */"}
\* methods with a statement in the body
BodyTexts == {"int getX() { return x; }", "double area() { return width * height; }"}

\* the declaration of a method area: after a leading virtual when v, with const
\* after the parameter list when c, with "= 0" when p, ended by the text end
MethodText(v, c, p, end) ==
    (IF v THEN "virtual " ELSE "") \o "double area()"
        \o (IF c THEN " const" ELSE "") \o (IF p THEN " = 0" ELSE "") \o end
\* a declaration ends at ';' or has a body
MethodEnds == {";", " {}"}
MethodTexts ==
    {MethodText(v, c, p, end) : v \in BOOLEAN, c \in BOOLEAN, p \in BOOLEAN, end \in MethodEnds}

RECURSIVE JoinNames(_)
\* the names of q separated by ", "
JoinNames(q) ==
    IF Len(q) = 0 THEN ""
    ELSE IF Len(q) = 1 THEN Head(q)
    ELSE Head(q) \o ", " \o JoinNames(Tail(q))

\* the text of a class Foo with the base names bs and the member texts ms
ClassText(bs, ms) ==
    "class Foo" \o (IF Len(bs) = 0 THEN "" ELSE " : public " \o JoinNames(bs))
                \o " {" \o JoinWords(ms) \o " };"

NotParsed == [status |-> "none", ir |-> EmptyIR, invalid_access |-> FALSE]

\* What a parseString call can do, given r = [ir, ub] of the parse: it returns
\* the IR; when the parse read back() of an empty string the behaviour is
\* undefined: the call returns the IR built from whatever byte was read, or
\* the process is aborted (the library's assertion, a fault).
OutcomesOf(r) ==
    {[status |-> "returned", ir |-> r.ir, invalid_access |-> r.ub]}
    \cup (IF r.ub THEN {[status |-> "aborted", ir |-> EmptyIR, invalid_access |-> TRUE]}
          ELSE {})

ParseOutcomes(text) == OutcomesOf(parseString(text))

\* ------------------------------------------------------------------------
\* Transpiler (transpiler.cpp): the file system and the constructor
\* ------------------------------------------------------------------------
\* the input files that exist, with their text; missing.cpp does not exist
InputText ==
    [p \in {"a.cpp", "b.cpp"} |->
        IF p = "a.cpp" THEN "class A { public: int x; };"
        ELSE "class T { void run() { co_await next(); } };"]
InputPaths == DOMAIN InputText \cup {"missing.cpp"}
\* the output paths: the directory of nodir/out.rs does not exist
OutputPaths == {"out.rs", "nodir/out.rs"}
\* TargetLanguage: Rust, Go, and any other value
Targets == {"Rust", "Go", "Other"}

NoFile == [exists |-> FALSE, content |-> ""]
FileOf(text) == [exists |-> TRUE, content |-> text]

\* whether std::ofstream(path) can create or truncate the file
Openable(path) == path # "nodir/out.rs"

\* the files before the first call; out is the file at out.rs
InitialFiles(out) ==
    [p \in InputPaths \cup OutputPaths |->
        IF p \in DOMAIN InputText THEN FileOf(InputText[p])
        ELSE IF p = "out.rs" THEN out
        ELSE NoFile]

\* Transpiler::Transpiler(options)
Transpiler(options) ==
    /\ options_ = options
    /\ ir_ = EmptyIR
    /\ codegen_ = (IF options.target = "Rust" THEN "RustCodeGenerator"
                   ELSE IF options.target = "Go" THEN "GoCodeGenerator"
                   ELSE "null")
    /\ last_error_ = ""
    /\ pc = "idle"
    /\ input_path = ""
    /\ queue = <<>>
    /\ in_batch = FALSE
    /\ generated_code = ""
    /\ result = "none"
    /\ batch = <<>>
    /\ units = <<>>

\* is_template and template_parameters of a ClassDecl as constructed
TemplateClassDecl == [is_template |-> FALSE, template_parameters |-> <<>>]

\* no template analysis in this run
NoTemplate ==
    /\ template_decl = ""
    /\ class_decl = TemplateClassDecl
    /\ rust_bounds = <<>>
    /\ go_params = <<>>

\* no query was made of the FFIAnalyzer
NoCall == [op |-> "none", cpp_type |-> "", result |-> ""]
NoFFI ==
    /\ ffi_analyzer = FFIAnalyzer
    /\ ffi_call = NoCall

\* main is not part of this run
NoCommandLine ==
    /\ input_file = ""
    /\ cli_options = [target |-> "Rust", output_path |-> "out.rs"]
    /\ main_pc = "ready"

\* the AsyncAnalyzer, the parser and the Transpiler are not part of this run
NoTranspiler ==
    /\ func = DefaultFunction
    /\ runs = 0
    /\ source = ""
    /\ bases = <<>>
    /\ members = <<>>
    /\ parsed = NotParsed
    /\ files = InitialFiles(NoFile)
    /\ Transpiler([target |-> "Rust", output_path |-> "out.rs"])

\* ------------------------------------------------------------------------
\* AsyncAnalyzer as a state machine: a Function as the parser leaves it
\* (body text, default async metadata), analyzed any number of times
\* ------------------------------------------------------------------------
InitAsync ==
    /\ func \in {[DefaultFunction EXCEPT !.name = "run", !.body = b] : b \in Bodies}
    /\ runs = 0
    /\ source = ""
    /\ bases = <<>>
    /\ members = <<>>
    /\ parsed = NotParsed
    /\ files = InitialFiles(NoFile)
    /\ Transpiler([target |-> "Rust", output_path |-> "out.rs"])
    /\ NoTemplate
    /\ NoCommandLine
    /\ NoFFI

AnalyzeFunction ==
    /\ runs < MaxRuns
    /\ func' = analyzeFunction(func)
    /\ runs' = runs + 1
    /\ UNCHANGED <<ffiVars, templateVars, mainVars, parserVars, pipelineVars>>

NextAsync == AnalyzeFunction

SpecAsync == InitAsync /\ [][NextAsync]_vars

\* C1: for every Function, as the parser leaves it and after any number of
\* analyzeFunction runs, is_async equals
\* (coroutine_info.is_coroutine OR futures non-empty OR async_tasks non-empty).
IsAsyncIsDerived ==
    func.is_async = (func.coroutine_info.is_coroutine
                     \/ Len(func.futures) > 0
                     \/ Len(func.async_tasks) > 0)

\* a Function analyzed twice that is async only through its launched tasks
IsAsyncIsDerivedWitness ==
    /\ runs = 2
    /\ func.is_async
    /\ ~func.coroutine_info.is_coroutine
    /\ Len(func.futures) = 0
    /\ Len(func.async_tasks) > 0

\* the suspension keywords and the AsyncOpType of each
SuspensionKeywords == {"co_await", "co_return", "co_yield"}
OpTypeOf(keyword) ==
    IF keyword = "co_await" THEN "CoAwait"
    ELSE IF keyword = "co_return" THEN "CoReturn" ELSE "CoYield"
\* whether the keyword is written in body at position i
KeywordAt(body, keyword, i) ==
    i + Len(keyword) - 1 <= Len(body) /\ SubSeq(body, i, i + Len(keyword) - 1) = keyword
\* the positions of body where a suspension keyword is written
KeywordPositions(body) ==
    {i \in 1..Len(body) : \E k \in SuspensionKeywords : KeywordAt(body, k, i)}
RECURSIVE OpTypesAt(_, _)
\* the AsyncOpType of the keywords written at the positions P, in textual order
OpTypesAt(body, P) ==
    IF P = {} THEN <<>>
    ELSE <<OpTypeOf(CHOOSE k \in SuspensionKeywords : KeywordAt(body, k, SetMin(P)))>>
         \o OpTypesAt(body, P \ {SetMin(P)})

\* C12: after analyzeFunction on a Function as the parser leaves it, a body
\* with the statement "co_yield i;" has is_generator and is_coroutine set, and
\* a body with no suspension keyword has every CoroutineInfo flag false and no
\* async operation.
YieldIsGenerator ==
    runs >= 1
    => /\ Find(func.body, "co_yield i;") # 0
          => func.coroutine_info.is_generator /\ func.coroutine_info.is_coroutine
       /\ KeywordPositions(func.body) = {}
          => func.coroutine_info = DefaultCoroutineInfo

\* a body whose only suspension statement is the yield has been analyzed
YieldIsGeneratorWitness ==
    /\ runs = 1
    /\ func.body = " int x = 0; co_yield i;"
    /\ func.coroutine_info.is_generator
    /\ func.coroutine_info.is_coroutine
    /\ ~func.coroutine_info.uses_co_await

\* C13: after analyzeFunction, a body in which any of co_await, co_return,
\* co_yield is written, a bare "co_return;" included, has is_coroutine set.
AnyKeywordIsCoroutine ==
    (runs >= 1 /\ KeywordPositions(func.body) # {}) => func.coroutine_info.is_coroutine

\* C14: after one analyzeFunction on a Function as the parser leaves it,
\* async_operations holds exactly one entry per keyword occurrence of the
\* body, in textual order, whatever the keyword.
OperationsInTextualOrder ==
    runs = 1
    => MapSeq(LAMBDA op : op.op_type, func.coroutine_info.async_operations)
       = OpTypesAt(func.body, KeywordPositions(func.body))

\* the positions of body where a launch call is written, and those where its
\* result is assigned to the variable r
LaunchPositions(body) == {i \in 1..Len(body) : KeywordAt(body, "std::async(", i)}
AssignedLaunchPositions(body) ==
    {i \in 1..Len(body) : KeywordAt(body, "auto r = std::async(", i)}

\* C24: after one analyzeFunction on a Function as the parser leaves it,
\* async_tasks holds exactly one record per launch call of the body, a record
\* is detached exactly when it has no variable, and every launch assigned to r
\* (with or without a launch policy) is recorded once with the variable r, the
\* callee work and detached = false.
OneTaskPerLaunch ==
    runs = 1
    => /\ Len(func.async_tasks) = Cardinality(LaunchPositions(func.body))
       /\ \A k \in 1..Len(func.async_tasks) :
              func.async_tasks[k].detached <=> func.async_tasks[k].task_var_name = ""
       /\ Cardinality({k \in 1..Len(func.async_tasks) :
                          func.async_tasks[k].task_var_name = "r"})
             = Cardinality(AssignedLaunchPositions(func.body))
       /\ \A k \in 1..Len(func.async_tasks) :
              func.async_tasks[k].task_var_name = "r"
              => /\ func.async_tasks[k].async_function_name = "work"
                 /\ ~func.async_tasks[k].detached

\* C28: analyzeFunction is idempotent: a run on a Function that was analyzed
\* before leaves coroutine_info.async_operations, futures and async_tasks as
\* the earlier run left them.
AnalyzeIsIdempotent ==
    [][runs >= 1
       => /\ func'.coroutine_info.async_operations = func.coroutine_info.async_operations
          /\ func'.futures = func.futures
          /\ func'.async_tasks = func.async_tasks]_vars

\* ------------------------------------------------------------------------
\* AsyncAnalyzer on bodies made of future and promise declarations
\* ------------------------------------------------------------------------
\* the declared variable of each declaration text
FutureDecls ==
    [f |-> "std::future<int> f = p.get_future();", g |-> "std::future<int> g;",
     h |-> "std::future<bool> h = q.get_future();"]
PromiseDecls ==
    [p |-> "std::promise<int> p;", q |-> "std::promise<bool> q;", s |-> "std::promise<int> s;"]

\* the sequences of distinct names of S with at most n names
DistinctSeqs(S, n) == {q \in SeqsUpTo(S, n) : \A i, j \in 1..Len(q) : q[i] = q[j] => i = j}
\* the names of q that are in S, in the order of q
NamesIn(q, S) == SelectSeq(q, LAMBDA name : name \in S)
DeclText(name) ==
    IF name \in DOMAIN FutureDecls THEN FutureDecls[name] ELSE PromiseDecls[name]

declared == CHOOSE q \in DistinctSeqs(DOMAIN FutureDecls \cup DOMAIN PromiseDecls, MaxDecls) :
                func.body = JoinWords(MapSeq(DeclText, q))
\* F1..Fm and P1..Pn of the body
DeclaredFutures == NamesIn(declared, DOMAIN FutureDecls)
DeclaredPromises == NamesIn(declared, DOMAIN PromiseDecls)

InitFutures ==
    /\ func \in {[DefaultFunction EXCEPT !.name = "run", !.body = JoinWords(MapSeq(DeclText, q))] :
                    q \in DistinctSeqs(DOMAIN FutureDecls \cup DOMAIN PromiseDecls, MaxDecls)}
    /\ runs = 0
    /\ source = ""
    /\ bases = <<>>
    /\ members = <<>>
    /\ parsed = NotParsed
    /\ files = InitialFiles(NoFile)
    /\ Transpiler([target |-> "Rust", output_path |-> "out.rs"])
    /\ NoTemplate
    /\ NoCommandLine
    /\ NoFFI

SpecFutures == InitFutures /\ [][NextAsync]_vars

Signatures ==
    {[name |-> "run", return_type |-> MkType("Void", "void", FALSE, <<>>), parameters |-> <<>>],
     [name |-> "get", return_type |-> MkType("Integer", "int", TRUE, <<>>),
      parameters |-> <<[name |-> "a", type |-> MkType("Integer", "int", FALSE, <<>>)]>>]}

\* the flags that are set in a Function analyzed; is_static and
\* is_constructor go with the signature
FlagSets == SUBSET {"is_const", "is_virtual", "may_throw", "is_template", "uses_threading"}

FunctionWith(sig, flags, body) ==
    [DefaultFunction EXCEPT
        !.name = sig.name, !.return_type = sig.return_type, !.parameters = sig.parameters,
        !.body = body,
        !.is_const = "is_const" \in flags, !.is_static = sig.name = "get",
        !.is_virtual = "is_virtual" \in flags, !.is_constructor = sig.name = "run",
        !.may_throw = "may_throw" \in flags, !.is_template = "is_template" \in flags,
        !.uses_threading = "uses_threading" \in flags]

InitFrame ==
    /\ func \in {FunctionWith(sig, flags, JoinWords(<<stmt>>)) :
                    sig \in Signatures, flags \in FlagSets, stmt \in Stmts}
    /\ runs = 0
    /\ source = ""
    /\ bases = <<>>
    /\ members = <<>>
    /\ parsed = NotParsed
    /\ files = InitialFiles(NoFile)
    /\ Transpiler([target |-> "Rust", output_path |-> "out.rs"])
    /\ NoTemplate
    /\ NoCommandLine
    /\ NoFFI

SpecFrame == InitFrame /\ [][NextAsync]_vars

\* the Function without its async metadata
FrameOf(f) ==
    [f EXCEPT !.coroutine_info = DefaultCoroutineInfo, !.futures = <<>>,
              !.async_tasks = <<>>, !.is_async = FALSE]

\* C26: analyzeFunction changes only coroutine_info, futures, async_tasks and
\* is_async of the Function: name, return type, parameters, body, the
\* const/static/virtual/constructor flags, may_throw, is_template and
\* uses_threading are after the call what they were before it.
OnlyAsyncMetadataChanges == [][FrameOf(func') = FrameOf(func)]_vars

\* a const virtual Function with a parameter, marked as throwing and as using
\* threads, has been analyzed and found async
OnlyAsyncMetadataChangesWitness ==
    /\ runs = 1
    /\ func.is_async
    /\ func.name = "get"
    /\ Len(func.parameters) = 1
    /\ func.is_const /\ func.is_virtual /\ func.is_static
    /\ func.may_throw /\ ~func.is_template /\ func.uses_threading

\* ------------------------------------------------------------------------
\* SimpleCppParser as a state machine: one source text, parsed once
\* ------------------------------------------------------------------------
\* a class without bases and with any members, or with any bases and at most
\* one member, or without bases and with method declarations only, or
\* without bases and with a field, comments and methods with a body
InitParser ==
    /\ \/ /\ bases = <<>>
          /\ members \in SeqsUpTo(MemberTexts, MaxMembers)
       \/ /\ bases = <<>>
          /\ members \in SeqsUpTo(MethodTexts, MaxMethods)
       \/ /\ bases = <<>>
          /\ members \in SeqsUpTo(CommentTexts \cup BodyTexts \cup {"int x;"}, MaxTexts)
       \/ /\ bases \in SeqsUpTo(BaseNames, MaxBases)
          /\ members \in SeqsUpTo(MemberTexts, 1)
    /\ source = ClassText(bases, members)
    /\ parsed = NotParsed
    /\ func = DefaultFunction
    /\ runs = 0
    /\ files = InitialFiles(NoFile)
    /\ Transpiler([target |-> "Rust", output_path |-> "out.rs"])
    /\ NoTemplate
    /\ NoCommandLine
    /\ NoFFI

ParseString ==
    /\ parsed.status = "none"
    /\ parsed' \in ParseOutcomes(source)
    /\ UNCHANGED <<ffiVars, templateVars, mainVars, source, bases, members, asyncVars, pipelineVars>>

NextParser == ParseString

SpecParser == InitParser /\ [][NextParser]_vars

\* C8: parseString never fails, whatever the text: also when a type text is
\* empty, or is nothing once a leading const or a trailing '*' or '&' is
\* removed, the call returns an IR, with no exception and no invalid access.
ParseStringNeverFails ==
    parsed.status # "none" => parsed.status = "returned" /\ ~parsed.invalid_access

\* C9: parsing "class Foo { public: int x; void bar(){} };" yields exactly one
\* ClassDecl, named Foo, with exactly one field, x of Integer kind, and exactly
\* one method, bar, with no parameters, not virtual, not const, not pure
\* virtual, and a body text.
FooClassParsed ==
    (source = "class Foo { public: int x; void bar(){} };" /\ parsed.status # "none")
    => /\ parsed.status = "returned"
       /\ Len(parsed.ir.classes) = 1
       /\ parsed.ir.classes[1].name = "Foo"
       /\ Len(parsed.ir.classes[1].fields) = 1
       /\ parsed.ir.classes[1].fields[1].name = "x"
       /\ parsed.ir.classes[1].fields[1].type.kind = "Integer"
       /\ Len(parsed.ir.classes[1].methods) = 1
       /\ parsed.ir.classes[1].methods[1].name = "bar"
       /\ parsed.ir.classes[1].methods[1].parameters = <<>>
       /\ ~parsed.ir.classes[1].methods[1].is_virtual
       /\ ~parsed.ir.classes[1].methods[1].is_const
       /\ ~parsed.ir.classes[1].methods[1].is_pure_virtual
       /\ parsed.ir.classes[1].methods[1].body = ""

\* the text of C9 has been parsed into a class with a field and a method
FooClassParsedWitness ==
    /\ source = "class Foo { public: int x; void bar(){} };"
    /\ parsed.status = "returned"
    /\ Len(parsed.ir.classes) = 1
    /\ Len(parsed.ir.classes[1].fields) = 1
    /\ Len(parsed.ir.classes[1].methods) = 1

\* C10: a class written with the base clause ": public B1, ..., Bn" is parsed
\* into a ClassDecl whose base_classes is <<B1, ..., Bn>>, in textual order; a
\* class written with no base clause has an empty base_classes.
BaseClassesInOrder ==
    parsed.status = "returned"
    => /\ Len(parsed.ir.classes) = 1
       /\ parsed.ir.classes[1].base_classes = bases

\* a class with two different bases has been parsed
BaseClassesInOrderWitness ==
    /\ parsed.status = "returned"
    /\ Len(bases) = 2
    /\ bases[1] # bases[2]
    /\ Len(parsed.ir.classes) = 1
    /\ parsed.ir.classes[1].base_classes = bases

\* C11: a method declaration is parsed with is_virtual true exactly when it is
\* written after a leading virtual, is_const true exactly when const follows
\* its parameter list, and is_pure_virtual true exactly when it ends in "= 0";
\* "virtual double area() const = 0;" gives all three flags true.
MethodFlagsFollowText ==
    (parsed.status = "returned" /\ \A i \in 1..Len(members) : members[i] \in MethodTexts)
    => /\ Len(parsed.ir.classes) = 1
       /\ Len(parsed.ir.classes[1].methods) = Len(members)
       /\ \A i \in 1..Len(members) :
             \A v \in BOOLEAN, c \in BOOLEAN, p \in BOOLEAN, end \in MethodEnds :
                members[i] = MethodText(v, c, p, end)
                => /\ parsed.ir.classes[1].methods[i].name = "area"
                   /\ parsed.ir.classes[1].methods[i].is_virtual = v
                   /\ parsed.ir.classes[1].methods[i].is_const = c
                   /\ parsed.ir.classes[1].methods[i].is_pure_virtual = p

\* "virtual double area() const = 0;" parsed with all three flags
MethodFlagsFollowTextWitness ==
    /\ parsed.status = "returned"
    /\ members = <<"virtual double area() const = 0;">>
    /\ Len(parsed.ir.classes) = 1
    /\ Len(parsed.ir.classes[1].methods) = 1
    /\ parsed.ir.classes[1].methods[1].is_virtual
    /\ parsed.ir.classes[1].methods[1].is_const
    /\ parsed.ir.classes[1].methods[1].is_pure_virtual

\* the name a member text declares
MemberNameOf(text) ==
    IF text = "int x;" THEN "x" ELSE IF text = "void bar(){}" THEN "bar" ELSE "area"

RECURSIVE AccessRuns(_, _, _)
\* the access runs of the member texts ms: names are the members met since the
\* label of level; a run with no member is not listed
AccessRuns(ms, level, names) ==
    IF Len(ms) = 0 \/ Head(ms) = "public:"
    THEN (IF Len(names) = 0 THEN <<>> ELSE <<[level |-> level, members |-> names]>>)
         \o (IF Len(ms) = 0 THEN <<>> ELSE AccessRuns(Tail(ms), "Public", <<>>))
    ELSE AccessRuns(Tail(ms), level, Append(names, MemberNameOf(Head(ms))))

\* C19: after parsing a class, access_sections is the ordered list of the
\* access runs of its body: every member name is in the section of the label
\* most recently before it, the members before the first label in a Private
\* section.
AccessSectionsListMembers ==
    (/\ parsed.status = "returned"
     /\ \A i \in 1..Len(members) :
           members[i] \in {"public:", "int x;", "void bar(){}"} \cup MethodTexts)
    => /\ Len(parsed.ir.classes) = 1
       /\ parsed.ir.classes[1].access_sections = AccessRuns(members, "Private", <<>>)

\* the members of ms that are the text t
Only(ms, t) == SelectSeq(ms, LAMBDA m : m = t)

\* C21: comments are removed before the classes are recognized: of a class
\* body written with the field "int x;" and with line comments and block
\* comments, on one line or over two, that hide other declarations, the
\* parser finds the fields x and nothing from inside a comment.
CommentsAreStripped ==
    (/\ parsed.status = "returned"
     /\ \A i \in 1..Len(members) : members[i] \in CommentTexts \cup {"int x;"})
    => /\ Len(parsed.ir.classes) = 1
       /\ Len(parsed.ir.classes[1].methods) = 0
       /\ MapSeq(LAMBDA f : f.name, parsed.ir.classes[1].fields)
          = MapSeq(LAMBDA m : "x", Only(members, "int x;"))

\* C29: every field of a parsed class is a member declaration of the class
\* body: of a class written with the field "int x;" and with methods whose
\* body holds a return statement, the fields are the declared x only, one
\* per declaration.
FieldsAreDeclaredMembers ==
    (/\ parsed.status = "returned"
     /\ \A i \in 1..Len(members) : members[i] \in BodyTexts \cup {"int x;"})
    => /\ Len(parsed.ir.classes) = 1
       /\ MapSeq(LAMBDA f : f.name, parsed.ir.classes[1].fields)
          = MapSeq(LAMBDA m : "x", Only(members, "int x;"))

\* ------------------------------------------------------------------------
\* SimpleCppParser on a source text of several blocks, parsed once
\* ------------------------------------------------------------------------
\* class and struct blocks, with a flat body or with one level of braces
BlockNames == {"A", "M", "S", "T"}
BlockText(n) ==
    IF n = "A" THEN "class A { int x; };"
    ELSE IF n = "M" THEN "class M { void f() { g(); } };"
    ELSE IF n = "S" THEN "struct S { int y; };"
    ELSE "struct T { void h() { } };"

InitBlocks ==
    /\ source \in {JoinWords(MapSeq(BlockText, q)) : q \in SeqsUpTo(BlockNames, MaxBlocks)}
    /\ bases = <<>>
    /\ members = <<>>
    /\ parsed = NotParsed
    /\ func = DefaultFunction
    /\ runs = 0
    /\ files = InitialFiles(NoFile)
    /\ Transpiler([target |-> "Rust", output_path |-> "out.rs"])
    /\ NoTemplate
    /\ NoCommandLine
    /\ NoFFI

SpecBlocks == InitBlocks /\ [][NextParser]_vars

\* C27: every class block and every struct block with at most one level of
\* nested braces is located, and the located blocks give one ClassDecl each,
\* in the textual order of the blocks.
EveryBlockIsLocated ==
    parsed.status = "returned"
    => \A q \in SeqsUpTo(BlockNames, MaxBlocks) :
          source = JoinWords(MapSeq(BlockText, q))
          => MapSeq(LAMBDA c : c.name, parsed.ir.classes) = q

\* ------------------------------------------------------------------------
\* Transpiler as a state machine: transpile and transpileBatch calls on one
\* Transpiler, each call a sequence of steps
\* ------------------------------------------------------------------------
\* parseFile without the is_open check: a missing file reads as empty text
parseFileUnchecked(filename) ==
    {[status |-> o.status, ir |-> o.ir, what |-> ""] :
        o \in ParseOutcomes(IF files[filename].exists THEN files[filename].content ELSE "")}

\* SimpleCppParser::parseFile (and Parser::parseFile): what the call can do
parseFile(filename) ==
    IF ~files[filename].exists
    THEN {[status |-> "threw", ir |-> EmptyIR, what |-> "Cannot open file: " \o filename]}
    ELSE {[status |-> o.status, ir |-> o.ir, what |-> ""] :
             o \in ParseOutcomes(files[filename].content)}

\* the complete text of a translation unit: the generator and the classes
GeneratedText(codegen, ir) ==
    codegen \o ":" \o JoinWords(MapSeq(LAMBDA c : c.name, ir.classes))

\* CodeGenerator::generate: the text, or a GenerationError
generate(codegen, ir) ==
    {[status |-> "returned", text |-> GeneratedText(codegen, ir)],
     [status |-> "threw", text |-> ""]}

\* a transpile run that starts now
NewUnit(path) ==
    [path |-> path, stages |-> <<>>, out_before |-> files[options_.output_path],
     outcome |-> "running"]

\* transpileBatch that goes on to the next input after a failing transpile
ReturnAndContinue(stages, outcome) ==
    /\ units' = [units EXCEPT ![Len(units)] =
                    [@ EXCEPT !.stages = @ \o stages, !.outcome = outcome]]
    /\ IF in_batch /\ outcome # "exception"
       THEN pc' = "batch" /\ result' = result
       ELSE pc' = "idle" /\ result' = outcome

\* transpile ends, after the stages given, with the outcome true, false or
\* exception; in transpileBatch a true goes on with the loop and anything
\* else ends the batch
ReturnFromTranspile(stages, outcome) ==
    /\ units' = [units EXCEPT ![Len(units)] =
                    [@ EXCEPT !.stages = @ \o stages, !.outcome = outcome]]
    /\ IF in_batch /\ outcome = "true"
       THEN pc' = "batch" /\ result' = result
       ELSE pc' = "idle" /\ result' = outcome

\* a caller calls transpile(path)
CallTranspile(path) ==
    /\ pc = "idle"
    /\ input_path' = path
    /\ in_batch' = FALSE
    /\ queue' = <<>>
    /\ batch' = <<>>
    /\ units' = <<NewUnit(path)>>
    /\ result' = "none"
    /\ pc' = "parse"
    /\ UNCHANGED <<ffiVars, templateVars, mainVars, options_, codegen_, ir_, last_error_, files, generated_code,
                   asyncVars, parserVars>>

\* a caller calls transpileBatch(paths)
CallTranspileBatch(paths) ==
    /\ pc = "idle"
    /\ in_batch' = TRUE
    /\ queue' = paths
    /\ batch' = paths
    /\ units' = <<>>
    /\ result' = "none"
    /\ pc' = "batch"
    /\ UNCHANGED <<ffiVars, templateVars, mainVars, options_, codegen_, ir_, last_error_, files, generated_code, input_path,
                   asyncVars, parserVars>>

\* transpileBatch: the head of the loop
TranspileBatch ==
    /\ pc = "batch"
    /\ IF Len(queue) = 0
       THEN /\ result' = "true"
            /\ pc' = "idle"
            /\ UNCHANGED <<input_path, queue, units>>
       ELSE /\ input_path' = Head(queue)
            /\ queue' = Tail(queue)
            /\ units' = Append(units, NewUnit(Head(queue)))
            /\ pc' = "parse"
            /\ UNCHANGED result
    /\ UNCHANGED <<ffiVars, templateVars, mainVars, options_, codegen_, ir_, last_error_, files, generated_code, in_batch,
                   batch, asyncVars, parserVars>>

\* Transpiler::parseSourceFile
ParseSourceFile ==
    /\ pc = "parse"
    /\ \E o \in parseFile(input_path) :
          CASE o.status = "returned" ->
                  /\ ir_' = o.ir
                  /\ units' = [units EXCEPT ![Len(units)].stages = Append(@, "parse")]
                  /\ pc' = "generate"
                  /\ UNCHANGED <<last_error_, result>>
            [] o.status = "threw" ->
                  /\ last_error_' = "Failed to parse input file: " \o o.what
                  /\ ReturnFromTranspile(<<"parse">>, "false")
                  /\ UNCHANGED ir_
            [] o.status = "aborted" ->
                  /\ units' = [units EXCEPT ![Len(units)] =
                                  [@ EXCEPT !.stages = Append(@, "parse"),
                                            !.outcome = "aborted"]]
                  /\ pc' = "terminated"
                  /\ UNCHANGED <<ir_, last_error_, result>>
    /\ UNCHANGED <<ffiVars, templateVars, mainVars, options_, codegen_, files, generated_code, input_path, queue, in_batch,
                   batch, asyncVars, parserVars>>

\* generateCode that opens the output file before it does anything else
GenerateCodeOpenFirst ==
    /\ pc = "generate"
    /\ files' = IF Openable(options_.output_path)
                THEN [files EXCEPT ![options_.output_path] = FileOf("")]
                ELSE files
    /\ IF codegen_ = "null"
       THEN /\ last_error_' = "Code generator not initialized"
            /\ ReturnFromTranspile(<<"open">>, "false")
            /\ UNCHANGED generated_code
       ELSE \E g \in generate(codegen_, ir_) :
               IF g.status = "returned"
               THEN /\ generated_code' = g.text
                    /\ units' = [units EXCEPT ![Len(units)].stages = @ \o <<"open", "generate">>]
                    /\ pc' = "write"
                    /\ UNCHANGED <<last_error_, result>>
               ELSE /\ ReturnFromTranspile(<<"open", "generate">>, "exception")
                    /\ UNCHANGED <<last_error_, generated_code>>
    /\ UNCHANGED <<ffiVars, templateVars, mainVars, options_, codegen_, ir_, input_path, queue, in_batch, batch,
                   asyncVars, parserVars>>

\* Transpiler::generateCode up to the return of generate: the check of
\* codegen_, then the call; an exception of generate is not caught here, nor
\* in transpile, nor in transpileBatch
GenerateCode ==
    /\ pc = "generate"
    /\ IF codegen_ = "null"
       THEN /\ last_error_' = "Code generator not initialized"
            /\ ReturnFromTranspile(<<>>, "false")
            /\ UNCHANGED generated_code
       ELSE \E g \in generate(codegen_, ir_) :
               IF g.status = "returned"
               THEN /\ generated_code' = g.text
                    /\ units' = [units EXCEPT ![Len(units)].stages = Append(@, "generate")]
                    /\ pc' = "write"
                    /\ UNCHANGED <<last_error_, result>>
               ELSE /\ ReturnFromTranspile(<<"generate">>, "exception")
                    /\ UNCHANGED <<last_error_, generated_code>>
    /\ UNCHANGED <<ffiVars, templateVars, mainVars, options_, codegen_, ir_, files, input_path, queue, in_batch, batch,
                   asyncVars, parserVars>>

\* generateCode that stores no message when the output file cannot be opened
WriteOutputSilent ==
    /\ pc = "write"
    /\ IF Openable(options_.output_path)
       THEN /\ files' = [files EXCEPT ![options_.output_path] = FileOf(generated_code)]
            /\ ReturnFromTranspile(<<"open">>, "true")
            /\ UNCHANGED last_error_
       ELSE /\ ReturnFromTranspile(<<"open">>, "false")
            /\ UNCHANGED <<files, last_error_>>
    /\ generated_code' = ""
    /\ UNCHANGED <<ffiVars, templateVars, mainVars, options_, codegen_, ir_, input_path, queue, in_batch, batch,
                   asyncVars, parserVars>>

\* Transpiler::generateCode from the std::ofstream on: open, write, close
WriteOutput ==
    /\ pc = "write"
    /\ IF Openable(options_.output_path)
       THEN /\ files' = [files EXCEPT ![options_.output_path] = FileOf(generated_code)]
            /\ ReturnFromTranspile(<<"open">>, "true")
            /\ UNCHANGED last_error_
       ELSE /\ last_error_' = "Failed to open output file: " \o options_.output_path
            /\ ReturnFromTranspile(<<"open">>, "false")
            /\ UNCHANGED files
    /\ generated_code' = ""
    /\ UNCHANGED <<ffiVars, templateVars, mainVars, options_, codegen_, ir_, input_path, queue, in_batch, batch,
                   asyncVars, parserVars>>

Init ==
    /\ files \in {InitialFiles(NoFile), InitialFiles(FileOf("old"))}
    /\ \E options \in [target : Targets, output_path : OutputPaths] : Transpiler(options)
    /\ func = DefaultFunction
    /\ runs = 0
    /\ source = ""
    /\ bases = <<>>
    /\ members = <<>>
    /\ parsed = NotParsed
    /\ NoTemplate
    /\ NoCommandLine
    /\ NoFFI

Next ==
    \/ \E path \in InputPaths : CallTranspile(path)
    \/ \E paths \in SeqsUpTo(InputPaths, MaxBatch) : CallTranspileBatch(paths)
    \/ TranspileBatch
    \/ ParseSourceFile
    \/ GenerateCode
    \/ WriteOutput

Spec == Init /\ [][Next]_vars

\* the elements of a sequence
Range(q) == {q[i] : i \in 1..Len(q)}

\* the IR after the async/coroutine analyzer ran on every method
AnalyzeIR(ir) ==
    [classes |-> MapSeq(LAMBDA c : [c EXCEPT !.methods = MapSeq(analyzeFunction, @)],
                        ir.classes)]

\* C2: when the input path cannot be opened, parseFile fails with a read error
\* and transpile returns false with the message stored; no generation and no
\* open of the output file are reached, the output file is as it was.
MissingInputFails ==
    \A i \in 1..Len(units) :
        (~files[units[i].path].exists /\ units[i].outcome # "running")
        => /\ units[i].outcome = "false"
           /\ units[i].stages = <<"parse">>
           /\ last_error_ = "Failed to parse input file: Cannot open file: " \o units[i].path
           /\ files[options_.output_path] = units[i].out_before

\* transpile of a missing input has returned false and the output file that
\* existed before is still there
MissingInputFailsWitness ==
    /\ pc = "idle"
    /\ Len(units) = 1
    /\ units[1].path = "missing.cpp"
    /\ units[1].outcome = "false"
    /\ result = "false"
    /\ codegen_ # "null"
    /\ files["out.rs"] = FileOf("old")
    /\ options_.output_path = "out.rs"

\* C3: an exception raised in any stage of transpile, parsing or code
\* generation, is caught: the message is stored, transpile returns false, and
\* no exception reaches the caller.
ExceptionsAreCaught ==
    /\ result # "exception"
    /\ \A i \in 1..Len(units) : units[i].outcome # "exception"

\* C4: the output file is opened only after parsing succeeded and generate
\* returned the text; a transpile that fails in parsing, for want of a
\* generator, or inside generation leaves the output path as it was.
OutputOpenedAfterGenerate ==
    \A i \in 1..Len(units) :
        /\ "open" \in Range(units[i].stages)
           => units[i].stages = <<"parse", "generate", "open">>
        /\ "open" \notin Range(units[i].stages)
           => files[options_.output_path] = units[i].out_before

\* a transpile failed for want of a generator, after a successful parse, and
\* the output file that existed before is untouched
OutputOpenedAfterGenerateWitness ==
    /\ pc = "idle"
    /\ Len(units) = 1
    /\ units[1].outcome = "false"
    /\ units[1].stages = <<"parse">>
    /\ files[units[1].path].exists
    /\ codegen_ = "null"
    /\ options_.output_path = "out.rs"
    /\ files["out.rs"] = FileOf("old")

\* C5: every input is processed with an IR of its own: when generation runs
\* the IR holds exactly the declarations parsed from the current input, and
\* after an input failed the IR holds no declaration of any other input.
FreshIRPerInput ==
    /\ pc = "generate" => ir_ = parseString(files[input_path].content).ir
    /\ \A i \in 1..Len(units) :
          units[i].outcome = "false"
          => \A k \in 1..Len(ir_.classes) :
                /\ files[units[i].path].exists
                /\ ir_.classes[k]
                     \in Range(parseString(files[units[i].path].content).ir.classes)

AnalyzeBeforeGenerate ==
    /\ \A i \in 1..Len(units) :
          "generate" \in Range(units[i].stages)
          => units[i].stages \in {<<"parse", "analyze", "generate">>,
                                  <<"parse", "analyze", "generate", "open">>}
    /\ pc = "write" => ir_ = AnalyzeIR(parseString(files[input_path].content).ir)

\* the message transpile stores when the unit u fails: the input cannot be
\* read, or there is no generator, or the output file cannot be opened
FailureMessage(u) ==
    IF ~files[u.path].exists THEN "Failed to parse input file: Cannot open file: " \o u.path
    ELSE IF codegen_ = "null" THEN "Code generator not initialized"
    ELSE "Failed to open output file: " \o options_.output_path

\* C23: whenever transpile has returned false, last_error_ holds the message
\* of the step that failed in that call: the read of the input, the missing
\* generator, or the output file that cannot be opened; when the generator is
\* missing no output file was opened and the file at the output path is as
\* it was before the call.
FalseLeavesMessage ==
    \A k \in 1..Len(units) :
        units[k].outcome = "false"
        => /\ k = Len(units)
           /\ last_error_ = FailureMessage(units[k])
           /\ (files[units[k].path].exists /\ codegen_ = "null")
              => /\ "open" \notin Range(units[k].stages)
                 /\ files[options_.output_path] = units[k].out_before

\* transpile returned false for a readable input because there is no
\* generator
FalseLeavesMessageWitness ==
    /\ pc = "idle"
    /\ result = "false"
    /\ Len(units) = 1
    /\ units[1].path = "a.cpp"
    /\ units[1].outcome = "false"
    /\ codegen_ = "null"
    /\ last_error_ = "Code generator not initialized"

\* C30: after a transpileBatch over two or more inputs has returned true, the
\* text written for every earlier input is still in a file: what the output
\* file held when a later unit started, the output of the unit before it, has
\* not been replaced by the output of a later input.
BatchOutputsAreRetained ==
    (pc = "idle" /\ in_batch /\ result = "true" /\ Len(batch) >= 2)
    => \A k \in 2..Len(units) :
          \E f \in DOMAIN files : files[f] = units[k].out_before

\* ------------------------------------------------------------------------
\* TemplateAnalyzer and TemplateConversionStrategy as a state machine: a
\* ClassDecl whose template declaration is analyzed, or whose parameter list
\* was filled by its owner, and is then rendered for each target
\* ------------------------------------------------------------------------
\* the texts a template parameter list is written with
ParamTexts ==
    {"typename T", "class U", "typename T = int", "int N = 4", "int N=4", "size_t Size",
     "template<typename> class C", "std::pair<int, int> P", " ", ""}

\* declarations with a parameter list, and declarations missing a bracket
TemplateDecls ==
    {"template<" \o JoinNamesWith(q, ", ") \o ">" : q \in SeqsUpTo(ParamTexts, MaxTParams)}
    \cup {"template", "template<typename T", "typename T>"}

\* the parameters an owner fills a list with: type parameters with and
\* without constraints, non-type parameters of several declared types and
\* of none, a template template parameter
ConstraintLists == {<<>>, <<"Ord">>, <<"Ord", "Eq">>}
DeclaredTypes == {"int", "size_t", "unsigned int", "long"}
GivenParameters ==
    {[MkTemplateParameter("TypeParam", "T", "", <<>>) EXCEPT !.constraints = cs] :
        cs \in ConstraintLists}
    \cup {MkTemplateParameter("NonType", "N", "", <<MkType("Integer", t, FALSE, <<>>)>>) :
            t \in DeclaredTypes}
    \cup {MkTemplateParameter("NonType", "N", "", <<>>),
          MkTemplateParameter("TemplateParam", "C", "", <<>>)}

\* TemplateAnalyzer::analyzeTemplateClass
analyzeTemplateClass(decl, template_text) ==
    [decl EXCEPT !.is_template = TRUE,
                 !.template_parameters = parseTemplateParameters(template_text, @)]

InitTemplate ==
    /\ \/ /\ template_decl \in TemplateDecls
          /\ class_decl = TemplateClassDecl
       \/ /\ template_decl = ""
          /\ class_decl \in {[is_template |-> TRUE, template_parameters |-> ps] :
                                ps \in SeqsUpTo(GivenParameters, MaxTParams)}
    /\ rust_bounds = <<>>
    /\ go_params = <<>>
    /\ NoCommandLine
    /\ NoFFI
    /\ NoTranspiler

\* each ClassDecl is analyzed once
AnalyzeTemplateClass ==
    /\ ~class_decl.is_template
    /\ class_decl' = analyzeTemplateClass(class_decl, template_decl)
    /\ UNCHANGED <<ffiVars, template_decl, rust_bounds, go_params, mainVars,
                   asyncVars, parserVars, pipelineVars>>

ToRustGenericBounds ==
    /\ class_decl.is_template
    /\ rust_bounds = <<>>
    /\ rust_bounds' = <<toRustGenericBounds(class_decl.template_parameters)>>
    /\ UNCHANGED <<ffiVars, template_decl, class_decl, go_params, mainVars,
                   asyncVars, parserVars, pipelineVars>>

ToGoTypeParameters ==
    /\ class_decl.is_template
    /\ go_params = <<>>
    /\ go_params' = <<toGoTypeParameters(class_decl.template_parameters)>>
    /\ UNCHANGED <<ffiVars, template_decl, class_decl, rust_bounds, mainVars,
                   asyncVars, parserVars, pipelineVars>>

NextTemplate == AnalyzeTemplateClass \/ ToRustGenericBounds \/ ToGoTypeParameters

SpecTemplate == InitTemplate /\ [][NextTemplate]_vars

\* C15: the analysis of "template<typename T, int N = 4>" gives exactly two
\* parameters in order: a TypeParam named T, and a NonType parameter named N
\* with default value "4" and the declared type int; the same parameters come
\* from the list written without spaces around the '='.
TemplateExampleParsed ==
    (class_decl.is_template
     /\ template_decl \in {"template<typename T, int N = 4>", "template<typename T, int N=4>"})
    => /\ Len(class_decl.template_parameters) = 2
       /\ class_decl.template_parameters[1].kind = "TypeParam"
       /\ class_decl.template_parameters[1].name = "T"
       /\ class_decl.template_parameters[2].kind = "NonType"
       /\ class_decl.template_parameters[2].name = "N"
       /\ class_decl.template_parameters[2].default_value = "4"
       /\ Len(class_decl.template_parameters[2].param_type) = 1
       /\ class_decl.template_parameters[2].param_type[1].name = "int"

\* the entry of a type parameter in a Go list: its constraints joined by
\* " | ", any when it has none
GoEntryOf(p) ==
    p.name \o " " \o (IF Len(p.constraints) = 0 THEN "any"
                      ELSE JoinNamesWith(p.constraints, " | "))
IsTypeParam(p) == p.kind = "TypeParam"

\* C16: the Go rendering of a non-empty list of type and non-type parameters
\* is the bracketed list of the entries of its type parameters only, separated
\* by ", ": a non-type parameter leaves no entry and no separator; a type
\* parameter with constraints carries them joined by " | " instead of any.
GoDropsNonType ==
    (/\ go_params # <<>>
     /\ Len(class_decl.template_parameters) > 0
     /\ \A i \in 1..Len(class_decl.template_parameters) :
           class_decl.template_parameters[i].kind \in {"TypeParam", "NonType"})
    => go_params[1]
       = "[" \o JoinNamesWith(MapSeq(GoEntryOf,
                                     SelectSeq(class_decl.template_parameters, IsTypeParam)),
                              ", ") \o "]"

\* the parameters of the claims on rendering: T with the constraints cs, N
\* of the declared type t
TypeParamT(cs) == [MkTemplateParameter("TypeParam", "T", "", <<>>) EXCEPT !.constraints = cs]
NonTypeN(t) == MkTemplateParameter("NonType", "N", "", <<MkType("Integer", t, FALSE, <<>>)>>)

\* what C17 says of every list but <<T, N>>: the empty list renders as the
\* empty text, and T with constraints carries them joined by " + "
RustBoundsOfTypeParams ==
    /\ Len(class_decl.template_parameters) = 0 => rust_bounds[1] = ""
    /\ \A cs \in ConstraintLists :
          class_decl.template_parameters = <<TypeParamT(cs)>>
          => rust_bounds[1] = (IF Len(cs) = 0 THEN "<T>"
                               ELSE "<T: " \o JoinNamesWith(cs, " + ") \o ">")

\* C17 as stated: the Rust rendering of <<T, N declared int>> gives T with no
\* bound and N as a const generic of usize; constraints are joined by " + ";
\* the empty list renders as the empty text.
RustNonTypeIsUsize ==
    rust_bounds # <<>>
    => /\ RustBoundsOfTypeParams
       /\ class_decl.template_parameters = <<TypeParamT(<<>>), NonTypeN("int")>>
          => rust_bounds[1] = "<T, const N: usize>"

\* C17, amended: the Rust rendering of <<T, N declared int>> gives T with no
\* bound and N as a const generic of i32; a declared unsigned int gives u32, a
\* declared size_t, a type outside the table and no declared type give usize;
\* constraints are joined by " + "; the empty list renders as the empty text.
RustNonTypeLowered ==
    rust_bounds # <<>>
    => /\ RustBoundsOfTypeParams
       /\ class_decl.template_parameters = <<TypeParamT(<<>>), NonTypeN("int")>>
          => rust_bounds[1] = "<T, const N: i32>"
       /\ class_decl.template_parameters = <<TypeParamT(<<>>), NonTypeN("unsigned int")>>
          => rust_bounds[1] = "<T, const N: u32>"
       /\ \A t \in {"size_t", "long"} :
             class_decl.template_parameters = <<TypeParamT(<<>>), NonTypeN(t)>>
             => rust_bounds[1] = "<T, const N: usize>"
       /\ class_decl.template_parameters
             = <<TypeParamT(<<>>), MkTemplateParameter("NonType", "N", "", <<>>)>>
          => rust_bounds[1] = "<T, const N: usize>"

\* the list <<T, N declared int>> has been rendered for Rust
RustNonTypeLoweredWitness ==
    /\ class_decl.template_parameters = <<TypeParamT(<<>>), NonTypeN("int")>>
    /\ rust_bounds = <<"<T, const N: i32>">>

\* whether decl lacks a bracket, or has only white space and commas between
\* its first '<' and its last '>'
NoParameterText(decl) ==
    \/ Find(decl, "<") = 0
    \/ RFind(decl, ">") = 0
    \/ \A i \in (Find(decl, "<") + 1)..(RFind(decl, ">") - 1) :
          CharAt(decl, i) \in TemplateWs \cup {","}

\* C18: the analysis of a declaration ends without a failure, and when the
\* declaration lacks a bracket or holds nothing, only white space, or only
\* empty groups between commas inside its brackets, the parameter list is empty.
NoParameterTextYieldsEmpty ==
    (class_decl.is_template /\ template_decl # "" /\ NoParameterText(template_decl))
    => Len(class_decl.template_parameters) = 0

\* ------------------------------------------------------------------------
\* main as a state machine: the command line is read and the input file was
\* found; the output path is settled before the Transpiler is made
\* ------------------------------------------------------------------------
\* input paths: a directory part, a file name without its extension, and
\* an extension or none; a name with a dot in it is written with an extension
InputDirs == {"", "src/", "dir.v2/", "./", "../lib/"}
InputStems == {"main", "x", "v1.main"}
InputExtensions == {"", ".cpp", ".cc"}
InputFiles ==
    {d \o n \o e : d \in InputDirs,
                   n \in {m \in InputStems : Find(m, ".") = 0},
                   e \in InputExtensions}
    \cup {d \o n \o e : d \in InputDirs, n \in InputStems, e \in InputExtensions \ {""}}
\* -t rust or -t go; -o with a path, or no -o
CommandLineOptions == [target : {"Rust", "Go"}, output_path : {"", "given.out"}]

InitMain ==
    /\ input_file \in InputFiles
    /\ cli_options \in CommandLineOptions
    /\ main_pc = "validated"
    /\ NoTemplate
    /\ NoFFI
    /\ NoTranspiler

AutoGenerateOutput ==
    /\ main_pc = "validated"
    /\ cli_options' = [cli_options EXCEPT !.output_path = AutoOutputPath(input_file, cli_options)]
    /\ main_pc' = "ready"
    /\ UNCHANGED <<ffiVars, input_file, templateVars, asyncVars, parserVars, pipelineVars>>

NextMain == AutoGenerateOutput

SpecMain == InitMain /\ [][NextMain]_vars

\* C20: when no output path was given, the output path main settles on is the
\* input path with the extension of its file name replaced by .rs or .go, or
\* with that extension added when the file name has none: the directory part
\* is kept as written, also when it holds a dot.
OnlyFileExtensionReplaced ==
    (main_pc = "ready" /\ cli_options.output_path # "given.out")
    => \A d \in InputDirs, n \in InputStems, e \in InputExtensions :
          input_file = d \o n \o e
          => cli_options.output_path = d \o n \o ExtensionOf(cli_options.target)

\* ------------------------------------------------------------------------
\* FFIAnalyzer as a state machine: a default-constructed analyzer, queried
\* any number of times
\* ------------------------------------------------------------------------
\* the types of the tables, and types outside them
QueriedTypes == {m[1] : m \in TypeMappings} \cup {"Widget", "Widget*", "const Widget*"}

InitFFI ==
    /\ NoFFI
    /\ input_file = ""
    /\ cli_options = [target |-> "Rust", output_path |-> "out.rs"]
    /\ main_pc = "ready"
    /\ NoTemplate
    /\ NoTranspiler

IsFFICompatible ==
    /\ \E t \in QueriedTypes :
          ffi_call' = [op |-> "isFFICompatible", cpp_type |-> t,
                       result |-> isFFICompatible(ffi_analyzer, t)]
    /\ UNCHANGED <<ffi_analyzer, mainVars, templateVars, asyncVars, parserVars, pipelineVars>>

ToCType ==
    /\ \E t \in QueriedTypes :
          ffi_call' = [op |-> "toCType", cpp_type |-> t, result |-> toCType(ffi_analyzer, t)]
    /\ UNCHANGED <<ffi_analyzer, mainVars, templateVars, asyncVars, parserVars, pipelineVars>>

ToRustFFIType ==
    /\ \E t \in QueriedTypes :
          ffi_call' = [op |-> "toRustFFIType", cpp_type |-> t,
                       result |-> toRustFFIType(ffi_analyzer, t)]
    /\ UNCHANGED <<ffi_analyzer, mainVars, templateVars, asyncVars, parserVars, pipelineVars>>

ToGoFFIType ==
    /\ \E t \in QueriedTypes :
          ffi_call' = [op |-> "toGoFFIType", cpp_type |-> t,
                       result |-> toGoFFIType(ffi_analyzer, t)]
    /\ UNCHANGED <<ffi_analyzer, mainVars, templateVars, asyncVars, parserVars, pipelineVars>>

NextFFI == IsFFICompatible \/ ToCType \/ ToRustFFIType \/ ToGoFFIType

SpecFFI == InitFFI /\ [][NextFFI]_vars

\* C22: on a default-constructed FFIAnalyzer, for every C++ type of the C
\* type-mapping table isFFICompatible returns true, and toCType,
\* toRustFFIType and toGoFFIType return the type the table maps it to.
TableTypesAreMapped ==
    \A m \in TypeMappings :
        ffi_call.cpp_type = m[1]
        => /\ ffi_call.op = "isFFICompatible" => ffi_call.result = TRUE
           /\ ffi_call.op = "toCType" => ffi_call.result = m[2]
           /\ ffi_call.op = "toRustFFIType" => ffi_call.result = m[3]
           /\ ffi_call.op = "toGoFFIType" => ffi_call.result = m[4]

====
